---- MODULE Spec2Model ----
(***************************************************************************)
(* A model of the code generator of sipbuild                               *)
(* (sipbuild/generator/outputs/code/code.py).  The state is the            *)
(* specification graph handed to the generator (built by the parser and    *)
(* the resolver, which are modelled by the Cache/Use/Add actions), the     *)
(* generation-time bookkeeping the generator writes into it, and the       *)
(* generated output.  The generation actions follow the order of           *)
(* _module_code.  Each specification explores the graphs of one component: *)
(*   SpecNames   any name cache (no other entity).                         *)
(*   SpecTables  the variables, members, functions, enums, super-classes   *)
(*               and imports that the tables are made from.                *)
(*   SpecTypes   the needed types, super-classes and imports that type     *)
(*               references are made from.                                 *)
(*   SpecVirt    the virtual overloads of two classes.                     *)
(*   SpecKeys    the virtual overloads and the variables with a getter     *)
(*               that references are kept for.                             *)
(*   SpecParts   the interface files and the number of parts that the      *)
(*               source files are made from.                               *)
(*   SpecCatch   the virtual overloads of a class, abstract or not, and    *)
(*               the class that they return.                               *)
(*   SpecExt     the calls of get_extension_data that build system         *)
(*               extensions make (build_system_extension.py).              *)
(*   SpecProt    the virtual overloads whose signatures have protected     *)
(*               enums and classes.                                        *)
(*   SpecCode    the virtual overloads that have %VirtualCatcherCode and   *)
(*               the error flags that the code needs.                      *)
(*   SpecParse   the virtual overloads whose handlers parse results and    *)
(*               /Out/ arguments.                                          *)
(*   SpecProps   the members and the properties of a class.                *)
(*   SpecAbi     the ABI versions and the extensions that write an         *)
(*               extension structure.                                      *)
(***************************************************************************)
EXTENDS Integers, Sequences, FiniteSets, TLC

(***************************************************************************)
(* Bounds of the model.                                                    *)
(***************************************************************************)
\* The number of names the parser caches in SpecNames.
MaxNames == 3

\* The number of entities of the graph in SpecTables.
MaxEntities == 2

\* The number of entities of the graph in SpecTypes.
MaxTypes == 4

\* The number of virtual overloads in SpecVirt.
MaxVirtuals == 3

\* The number of virtual overloads and variables with a getter in SpecKeys.
MaxKept == 2

\* The number of interface files in SpecParts.
MaxIfaceFiles == 4

\* The largest number of parts (bindings.concatenate) in SpecParts.
MaxParts == 3

\* The number of virtual overloads in SpecCatch.
MaxCatchers == 2

\* The number of calls of get_extension_data in SpecExt.
MaxCalls == 3

(***************************************************************************)
(* Generic helpers.                                                        *)
(***************************************************************************)
Range(s) == {s[i] : i \in DOMAIN s}

RECURSIVE SeqSum(_)
SeqSum(s) == IF s = <<>> THEN 0 ELSE Head(s) + SeqSum(Tail(s))

\* Map f over a sequence.
MapSeq(f(_), s) == [i \in DOMAIN s |-> f(s[i])]

RECURSIVE Concat(_)
Concat(ss) == IF ss = <<>> THEN <<>> ELSE Head(ss) \o Concat(Tail(ss))

(***************************************************************************)
(*                              THE NAME CACHE                             *)
(*                                                                         *)
(* A name is a sequence of characters.  A CachedName object is identified  *)
(* by its name (the cache never holds a name twice); its mutable fields    *)
(* are held in "cached".  spec.name_cache maps a name length to the list   *)
(* of the names of that length, in the order the parser cached them.       *)
(***************************************************************************)
VARIABLES
    cached,           \* name -> [used, is_substring, offset]: the CachedName objects
    name_cache,       \* spec.name_cache: length -> sequence of names
    name_cache_list,  \* the list returned by _name_cache_as_list
    sipStrings,       \* the initialiser of sipStrings_<module>, a sequence of bytes
    sipNameNr,        \* name -> the value of its sipNameNr_ define in the header
    pc                \* the position of the run: parse, listed, strings, ifaces,
                      \* handlers, module, header

namesVars == <<cached, name_cache, name_cache_list, sipStrings, sipNameNr, pc>>

\* The byte written as 0 after each name of the pool.
NUL == "NUL"

\* The value of CachedName.offset before _name_cache_as_list has set it.
NoOffset == -1

\* The names the parser may cache.
NamePool ==
    { <<"x">>, <<"y">>,
      <<"x", "x">>, <<"y", "x">>, <<"x", "y">>,
      <<"z", "y", "x">>, <<"x", "y", "x">>, <<"z", "x", "y">> }

\* The code point of a character (the order Python compares strings by).
CharCode(c) ==
    CASE c = "x" -> 120
      [] c = "y" -> 121
      [] c = "z" -> 122

\* a < b for Python strings.
RECURSIVE StrLess(_, _)
StrLess(a, b) ==
    IF a = <<>> THEN b /= <<>>
    ELSE IF b = <<>> THEN FALSE
    ELSE IF Head(a) = Head(b) THEN StrLess(Tail(a), Tail(b))
    ELSE CharCode(Head(a)) < CharCode(Head(b))

\* str.endswith
EndsWith(s, t) ==
    /\ Len(t) <= Len(s)
    /\ SubSeq(s, Len(s) - Len(t) + 1, Len(s)) = t

RECURSIVE InsertByName(_, _)
InsertByName(n, s) ==
    IF s = <<>> THEN <<n>>
    ELSE IF StrLess(n, Head(s)) THEN <<n>> \o s
    ELSE <<Head(s)>> \o InsertByName(n, Tail(s))

\* sorted(name_cache[k], key=lambda k: k.name)
RECURSIVE SortedByName(_)
SortedByName(s) ==
    IF s = <<>> THEN <<>>
    ELSE InsertByName(Head(s), SortedByName(Tail(s)))

\* sorted(name_cache.keys(), reverse=True)
RECURSIVE KeysDescending(_)
KeysDescending(K) ==
    IF K = {} THEN <<>>
    ELSE LET m == CHOOSE k \in K : \A j \in K : j <= k
         IN  <<m>> \o KeysDescending(K \ {m})

\* The first loop of _name_cache_as_list: the list sorted by descending
\* length and then by name.
RECURSIVE ExtendSorted(_, _)
ExtendSorted(nc, keys) ==
    IF keys = <<>> THEN <<>>
    ELSE SortedByName(nc[Head(keys)]) \o ExtendSorted(nc, Tail(keys))

OrderedNameList(nc) == ExtendSorted(nc, KeysDescending(DOMAIN nc))

\* Whether the tail of a previous name may be shared (it is not skipped by
\* "if not prev_name.used or prev_name.is_substring: continue").
PrevUsableAnyUse(rec) == ~rec.is_substring

PrevUsable(rec) == rec.used /\ ~rec.is_substring

\* The offset of a name stored as the tail of a previous name.
SuffixOffsetAtStart(prev_offset, prev_name_len, name_len) == prev_offset

SuffixOffset(prev_offset, prev_name_len, name_len) ==
    prev_offset + prev_name_len - name_len

\* The running offset after a name has been stored in full.
NextOffset(offset, name_len) == offset + name_len + 1

FindPrevNone(lst, recs, j, name) == 0

\* The inner loop of _name_cache_as_list: the index of the previous name
\* whose tail is used for name, or 0 if the loop ends without finding one.
RECURSIVE FindPrev(_, _, _, _)
FindPrev(lst, recs, j, name) ==
    IF j > Len(lst) THEN 0
    ELSE IF Len(lst[j]) <= Len(name) THEN 0
    ELSE IF ~PrevUsable(recs[lst[j]]) THEN FindPrev(lst, recs, j + 1, name)
    ELSE IF EndsWith(lst[j], name) THEN j
    ELSE FindPrev(lst, recs, j + 1, name)

\* The second loop of _name_cache_as_list: the CachedName objects once the
\* names of lst from index i on have been given their offsets.
RECURSIVE SetOffsets(_, _, _, _)
SetOffsets(lst, i, recs, offset) ==
    IF i > Len(lst) THEN recs
    ELSE LET name == lst[i]
             rec  == recs[name]
         IN  IF ~rec.used THEN SetOffsets(lst, i + 1, recs, offset)
             ELSE LET j  == FindPrev(lst, recs, 1, name)
                      r1 == IF j = 0 THEN rec
                            ELSE [rec EXCEPT
                                    !.is_substring = TRUE,
                                    !.offset = SuffixOffset(recs[lst[j]].offset,
                                                   Len(lst[j]), Len(name))]
                  IN  IF ~r1.is_substring
                      THEN SetOffsets(lst, i + 1,
                               [recs EXCEPT ![name] = [r1 EXCEPT !.offset = offset]],
                               NextOffset(offset, Len(name)))
                      ELSE SetOffsets(lst, i + 1,
                               [recs EXCEPT ![name] = r1], offset)

\* The bytes _name_cache writes between the braces of sipStrings_<module>.
RECURSIVE PoolBytes(_, _)
PoolBytes(lst, recs) ==
    IF lst = <<>> THEN <<>>
    ELSE LET rec == recs[Head(lst)]
         IN  (IF ~rec.used \/ rec.is_substring THEN <<>>
              ELSE Head(lst) \o <<NUL>>)
             \o PoolBytes(Tail(lst), recs)

(***************************************************************************)
(*                        THE SPECIFICATION GRAPH                          *)
(*                                                                         *)
(* The module being generated is "m".  It has the module scope (scope      *)
(* None, written "module") and one wrapped scope T, which is a class, a    *)
(* namespace or a mapped type.                                             *)
(***************************************************************************)
VARIABLES
    abi_version,      \* spec.abi_version, a pair <<major, minor>>
    c_bindings,       \* spec.c_bindings
    scope_type,       \* what T is: "class", "namespace" or "mapped"
    variables,        \* spec.variables
    members,          \* klass.members or mapped_type.members of T
    global_functions, \* module.global_functions
    enums,            \* spec.enums
    superclasses,     \* klass.superclasses of T
    all_imports,      \* module.all_imports
    needed_types,     \* module.needed_types; the type_nr of an entry is its index
    virtual_overloads, \* klass.virtual_overloads of the classes Shape and Circle
    virtual_handlers, \* spec.virtual_handlers
    iface_files,      \* spec.iface_files
    parts,            \* bindings.concatenate, 0 if the code is not split
    tables,           \* the tables written so far, in file order: [name, rows]
    refs,             \* descriptor field -> the reference written there
    catchers,         \* the virtual catchers written, in file order
    handlers,         \* the names of the virtual handlers written, in file order
    next_key,         \* module -> module.next_key
    kept_keys,        \* the keys written into the code: [site, module, key]
    handler_calls,    \* the calls of the handlers that the catchers make
    handler_defs,     \* the definitions of the virtual handlers written
    init_code,        \* the statements of the module initialisation function
    header_externs,   \* the extern declarations of tables in the internal header
    sources,          \* the source files the interface files are written to
    result_class,     \* the class A that virtual overloads return
    catcher_flags,    \* the error flags that the %VirtualCatcherCode needs
    properties,       \* the properties of T
    extensions,       \* the extensions that write an extension structure for T
    extension_data,   \* extendable -> its extension_data: None or a dict
    extension_calls,  \* the calls of get_extension_data made, with their results
    error,            \* the message of the UserException raised, if any
    catcher_code,     \* the statements of the body of each catcher written
    handler_code,     \* the statements of each handler with %VirtualCatcherCode
    property_rows,    \* the rows of the properties in the variables table of T
    header_defines,   \* the ABI-dependent macros the internal API header defines
    emitted_graph     \* the signatures and the is_protected flags as generation leaves them

graphVars == <<abi_version, c_bindings, scope_type, variables, members,
               global_functions, enums, superclasses, all_imports,
               needed_types>>

virtVars == <<virtual_overloads, virtual_handlers>>

partVars == <<iface_files, parts>>

\* What no action of the parser and of the generator writes.
extVars == <<result_class, catcher_flags, properties, extensions,
             extension_data, extension_calls>>

outVars == <<tables, refs, catchers, handlers, next_key, kept_keys,
             handler_calls, handler_defs, init_code, header_externs,
             sources, error, catcher_code, handler_code, property_rows,
             header_defines, emitted_graph>>

AbiVersions == { <<12, 15>>, <<13, 0>> }

\* The ABI versions of SpecAbi, on both sides of each version that the
\* internal API header tests.
HeaderAbiVersions ==
    { <<12, 8>>, <<12, 14>>, <<12, 15>>, <<12, 16>>, <<13, 0>>, <<13, 5>>,
      <<13, 7>>, <<13, 8>>, <<13, 9>> }

\* The lists of extensions whose class_write_extension_structure returns
\* True for T, in the order of bindings.build_system_extensions.
ExtensionLists == { <<>>, <<"pyqt">>, <<"pyqt", "dbus">> }

\* abi_version >= (major, minor), the comparison of Python tuples.
AbiAtLeast(v, major, minor) ==
    \/ v[1] > major
    \/ v[1] = major /\ v[2] >= minor

\* The characters of the names that entities are given.
NameChars(s) ==
    CASE s = "x"  -> <<"x">>
      [] s = "y"  -> <<"y">>
      [] s = "yx" -> <<"y", "x">>
      [] s = "xy" -> <<"x", "y">>

\* A variable that is not const, not static, may be set, has no %SetCode
\* and, if it is a class, one of the module.
Var(n, t, d, nm, h, a, sc, tm) ==
    [py_name |-> n, type |-> t, derefs |-> d, named |-> nm,
     needs_handler |-> h, access_code |-> a, scope |-> sc, this_module |-> tm,
     is_const |-> FALSE, is_static |-> FALSE, no_setter |-> FALSE,
     set_code |-> FALSE, type_module |-> "m"]

\* A variable of T that has a getter: c is whether it is const, st whether
\* it is static, ns whether it has no setter, sc whether it has %SetCode and
\* tmod the module of its type.
HandledVar(n, t, d, c, st, ns, sc, tmod) ==
    [Var(n, t, d, FALSE, TRUE, FALSE, "T", TRUE) EXCEPT
        !.is_const = c, !.is_static = st, !.no_setter = ns, !.set_code = sc,
        !.type_module = tmod]

\* The variables with a getter that the parser may add to T.
HandledVariablePool ==
    { HandledVar("x",  "CLASS",  0, FALSE, FALSE, FALSE, FALSE, "m"),
      HandledVar("y",  "CLASS",  0, FALSE, FALSE, FALSE, FALSE, "core"),
      HandledVar("xy", "CLASS",  0, FALSE, TRUE,  FALSE, FALSE, "m"),
      HandledVar("yx", "CLASS",  0, TRUE,  FALSE, FALSE, FALSE, "m"),
      HandledVar("x",  "STRING", 1, FALSE, FALSE, FALSE, FALSE, "m"),
      HandledVar("y",  "STRING", 1, FALSE, TRUE,  FALSE, FALSE, "m"),
      HandledVar("xy", "STRING", 1, FALSE, FALSE, TRUE,  FALSE, "m"),
      HandledVar("yx", "STRING", 1, FALSE, FALSE, FALSE, TRUE,  "m"),
      HandledVar("y",  "INT",    0, FALSE, FALSE, FALSE, FALSE, "m") }

\* The variables the parser may add: the type of a variable is its
\* ArgumentType, derefs the number of its pointer indirections, named whether
\* the type is an enum with a name.
VariablePool ==
    { Var("x",  "CLASS",     0, FALSE, FALSE, FALSE, "module", TRUE),
      Var("y",  "CLASS",     1, FALSE, FALSE, FALSE, "module", TRUE),
      Var("xy", "ENUM",      0, TRUE,  FALSE, FALSE, "module", TRUE),
      Var("y",  "INT",       0, FALSE, FALSE, FALSE, "module", TRUE),
      Var("yx", "VOID",      1, FALSE, FALSE, FALSE, "module", TRUE),
      Var("xy", "STRING",    0, FALSE, FALSE, FALSE, "module", TRUE),
      Var("x",  "STRING",    1, FALSE, FALSE, FALSE, "module", TRUE),
      Var("yx", "LONG",      0, FALSE, FALSE, FALSE, "module", TRUE),
      Var("xy", "UINT",      0, FALSE, FALSE, FALSE, "module", TRUE),
      Var("yx", "DOUBLE",    0, FALSE, FALSE, FALSE, "module", TRUE),
      Var("y",  "INT",       0, FALSE, TRUE,  FALSE, "module", TRUE),
      Var("y",  "CLASS",     1, FALSE, FALSE, FALSE, "T", TRUE),
      Var("x",  "CLASS",     0, FALSE, FALSE, FALSE, "T", TRUE),
      Var("yx", "MAPPED",    0, FALSE, FALSE, FALSE, "module", TRUE),
      Var("yx", "INT",       0, FALSE, FALSE, FALSE, "T", TRUE),
      Var("x",  "INT",       0, FALSE, TRUE,  FALSE, "T", TRUE) }

Ovl(sig, acc, abs) ==
    [pyqt_is_signal |-> sig, access_specifier |-> acc, is_abstract |-> abs]

Mem(n, slot, ovls) == [py_name |-> n, py_slot |-> slot, overloads |-> ovls]

\* The value of Member.py_slot of a member that is not an operator.
NoSlot == "None"

\* The members the parser may add to T.
MemberPool ==
    { Mem("x",  NoSlot,    <<Ovl(FALSE, "PUBLIC", FALSE)>>),
      Mem("y",  NoSlot,    <<Ovl(FALSE, "PROTECTED", FALSE)>>),
      Mem("yx", "ADD",     <<Ovl(FALSE, "PUBLIC", FALSE)>>),
      Mem("xy", NoSlot,    <<Ovl(FALSE, "PRIVATE", TRUE)>>),
      Mem("yx", NoSlot,    <<Ovl(TRUE, "PUBLIC", FALSE)>>),
      Mem("xy", NoSlot,    <<Ovl(FALSE, "PRIVATE", TRUE),
                             Ovl(FALSE, "PUBLIC", FALSE)>>) }

\* A property of T: its name, the name of its getter and the name of its
\* setter (NoSetter for the None of a property without one).
Property(n, getter, setter) == [name |-> n, getter |-> getter, setter |-> setter]

NoSetter == "None"

NoProperties == <<>>

\* The properties T may have in SpecProps.
PropertyLists ==
    { <<>>,
      <<Property("px", "x", NoSetter)>>,
      <<Property("py", "y", "x")>>,
      <<Property("px", "x", NoSetter), Property("py", "y", "x")>> }

\* The global functions the parser may add to the module.
FunctionPool ==
    { Mem("x",  NoSlot, <<Ovl(FALSE, "PUBLIC", FALSE)>>),
      Mem("xy", "EQ",   <<Ovl(FALSE, "PUBLIC", FALSE)>>) }

Enum(n, fq, sc, ms, nd, tm) ==
    [py_name |-> n, fq_cpp_name |-> fq, scope |-> sc, members |-> ms,
     needed |-> nd, this_module |-> tm]

\* The value of WrappedEnum.py_name and .fq_cpp_name of an anonymous enum.
NoName == "None"

\* The enums the parser may add; a needed enum is one that is an entry of
\* module.needed_types.
EnumPool ==
    { Enum("x",    "x",    "module", <<"y">>,       TRUE,  TRUE),
      Enum(NoName, NoName, "module", <<"yx", "x">>, FALSE, TRUE),
      Enum("x",    "T_x",  "T",      <<"yx">>,      TRUE,  TRUE),
      Enum(NoName, NoName, "T",      <<"xy">>,      FALSE, TRUE),
      Enum("y",    "y",    "module", <<"xy">>,      TRUE,  FALSE) }

Class(n, mod, nr) == [name |-> n, module |-> mod, type_nr |-> nr]

\* The classes T may be derived from: of this module or of another one.
ClassPool ==
    { Class("A", "m", 0),
      Class("B", "core", 0),
      Class("C", "extras", 1) }

Module(n, nt) == [py_name |-> n, needed_types |-> nt]

\* The module being generated and the modules it may import.
ModuleNames == {"m", "core", "extras"}

\* The value of Module.next_key of a module before any key is taken.
FirstKey == -1

\* The modules that the module may import, each with the types of it that
\* the module needs (imported_module.needed_types).
ModulePool ==
    { Module("core", <<"B">>),
      Module("extras", <<>>) }

IfaceFile(n, tm, t, ext, empty) ==
    [name |-> n, this_module |-> tm, type |-> t, file_extension |-> ext,
     empty |-> empty]

\* The value of IfaceFile.file_extension of an interface file that has no
\* extension of its own.
NoExtension == "None"

\* The interface files the parser may add: three of classes of the module,
\* one with a file extension of its own, one with nothing to generate (of a
\* hidden namespace), one of an exception and one of another module.
IfaceFilePool ==
    { IfaceFile("A", TRUE,  "CLASS",     NoExtension, FALSE),
      IfaceFile("B", TRUE,  "CLASS",     NoExtension, FALSE),
      IfaceFile("C", TRUE,  "CLASS",     NoExtension, FALSE),
      IfaceFile("E", TRUE,  "CLASS",     ".mm",       FALSE),
      IfaceFile("H", TRUE,  "NAMESPACE", NoExtension, TRUE),
      IfaceFile("X", TRUE,  "EXCEPTION", NoExtension, TRUE),
      IfaceFile("O", FALSE, "CLASS",     NoExtension, TRUE) }

Needed(t, n, ext, hid) ==
    [type |-> t, name |-> n, external |-> ext, is_hidden_namespace |-> hid]

\* The classes and mapped types module.needed_types may have: one of the
\* classes is external and one a hidden namespace.  The enums of the list
\* are added with AddEnum.
NeededPool ==
    { Needed("CLASS", "A", FALSE, FALSE),
      Needed("CLASS", "X", TRUE, FALSE),
      Needed("CLASS", "H", FALSE, TRUE),
      Needed("MAPPED", "M", FALSE, FALSE) }

\* The names of a scope that are taken.
ScopeNames(sc) ==
    {v.py_name : v \in {w \in Range(variables) : w.scope = sc}}
    \cup {e.py_name : e \in {f \in Range(enums) : f.scope = sc}}
    \cup UNION {Range(e.members) : e \in {f \in Range(enums) : f.scope = sc}}
    \cup (IF sc = "T" THEN {m.py_name : m \in Range(members)}
          ELSE {m.py_name : m \in Range(global_functions)})

\* The number of entities of the graph; a needed enum is counted once.
GraphSize ==
    Len(variables) + Len(members) + Len(global_functions) + Len(enums)
        + Len(superclasses) + Len(all_imports)
        + Len(SelectSeq(needed_types, LAMBDA t : t.type /= "ENUM"))

\* An argument or a result: its type, the number of its pointer
\* indirections, whether it is a reference and whether it is an /Out/ value.
Arg(t, d, ref, out) ==
    [type |-> t, derefs |-> d, is_reference |-> ref, is_out |-> out]

\* The definition of an anonymous enum, whose fq_cpp_name is None.
AnonymousEnum == "anonymous"

\* An argument or a result of a protected enum or class: its definition.
Of(arg, definition) ==
    [type |-> arg.type, derefs |-> arg.derefs,
     is_reference |-> arg.is_reference, is_out |-> arg.is_out,
     definition |-> definition]

\* The signatures of the virtual overloads, each named by what it is in C++
\* (A is a class); the Python signature of an overload is its C++ signature.
Signature(sig) ==
    CASE sig = "double()" ->
            [result |-> Arg("DOUBLE", 0, FALSE, FALSE), args |-> <<>>]
      [] sig = "void()" ->
            [result |-> Arg("VOID", 0, FALSE, FALSE), args |-> <<>>]
      [] sig = "char*()" ->
            [result |-> Arg("STRING", 1, FALSE, FALSE), args |-> <<>>]
      [] sig = "A&()" ->
            [result |-> Arg("CLASS", 0, TRUE, FALSE), args |-> <<>>]
      [] sig = "A()" ->
            [result |-> Arg("CLASS", 0, FALSE, FALSE), args |-> <<>>]
      [] sig = "A*()" ->
            [result |-> Arg("CLASS", 1, FALSE, FALSE), args |-> <<>>]
      [] sig = "anon()" ->
            [result |-> Of(Arg("ENUM", 0, FALSE, FALSE), AnonymousEnum),
             args |-> <<>>]
      [] sig = "F(Cap&)" ->
            [result |-> Of(Arg("ENUM", 0, FALSE, FALSE), "F"),
             args |-> <<Of(Arg("CAPSULE", 0, TRUE, TRUE), "Cap")>>]
      [] sig = "PyTuple(A*&)" ->
            [result |-> Arg("PYTUPLE", 0, FALSE, FALSE),
             args |-> <<Of(Arg("CLASS", 1, TRUE, TRUE), "A")>>]
      [] sig = "PyList()" ->
            [result |-> Arg("PYLIST", 0, FALSE, FALSE) @@ [allow_none |-> TRUE],
             args |-> <<>>]
      [] sig = "E(E,P&)" ->
            [result |-> Of(Arg("ENUM", 0, FALSE, FALSE), "E"),
             args |-> <<Of(Arg("ENUM", 0, FALSE, FALSE), "E"),
                        Of(Arg("CLASS", 0, TRUE, FALSE), "P")>>]
      [] sig = "char*(P,char**)" ->
            [result |-> Arg("STRING", 1, FALSE, FALSE),
             args |-> <<Of(Arg("CLASS", 0, FALSE, FALSE), "P"),
                        Arg("STRING", 2, FALSE, TRUE)>>]
      [] sig = "void(char*)" ->
            [result |-> Arg("VOID", 0, FALSE, FALSE),
             args |-> <<Arg("STRING", 1, FALSE, FALSE)>>]
      [] sig = "void(int&,char**)" ->
            [result |-> Arg("VOID", 0, FALSE, FALSE),
             args |-> <<Arg("INT", 0, TRUE, TRUE), Arg("STRING", 2, FALSE, TRUE)>>]
      [] sig = "char*(char**,char**)" ->
            [result |-> Arg("STRING", 1, FALSE, FALSE),
             args |-> <<Arg("STRING", 2, FALSE, TRUE), Arg("STRING", 2, FALSE, TRUE)>>]

\* A virtual overload without /AbortOnException/ and %VirtualCatcherCode.
VOvl(n, sig, acc, abs, vcc) ==
    [cpp_name |-> n, cpp_signature |-> sig, access_specifier |-> acc,
     is_abstract |-> abs, virtual_call_code |-> vcc,
     abort_on_exception |-> FALSE, virtual_catcher_code |-> FALSE,
     new_thread |-> FALSE]

\* A public virtual overload: abort is whether it has /AbortOnException/,
\* code whether it has %VirtualCatcherCode.
KeptOvl(n, sig, abort, code) ==
    [VOvl(n, sig, "PUBLIC", FALSE, FALSE) EXCEPT
        !.abort_on_exception = abort, !.virtual_catcher_code = code]

\* The virtual overloads a class may have in SpecKeys.
KeptOverloadPool ==
    { KeptOvl("name",  "char*()",              FALSE, FALSE),
      KeptOvl("name",  "char*()",              TRUE,  FALSE),
      KeptOvl("label", "char*()",              FALSE, FALSE),
      KeptOvl("label", "char*()",              FALSE, TRUE),
      KeptOvl("self",  "A&()",                 FALSE, FALSE),
      KeptOvl("self",  "A&()",                 TRUE,  FALSE),
      KeptOvl("put",   "void(char*)",          TRUE,  FALSE),
      KeptOvl("get",   "void(int&,char**)",    FALSE, FALSE),
      KeptOvl("get",   "void(int&,char**)",    TRUE,  FALSE),
      KeptOvl("both",  "char*(char**,char**)", TRUE,  FALSE),
      KeptOvl("draw",  "void()",               TRUE,  FALSE),
      KeptOvl("area",  "double()",             TRUE,  FALSE) }

\* A public virtual overload: whether it is abstract and has
\* %VirtualCallCode, /AbortOnException/ and %VirtualCatcherCode.
CatchOvl(n, sig, abs, vcc, abort, code) ==
    [KeptOvl(n, sig, abort, code) EXCEPT
        !.is_abstract = abs, !.virtual_call_code = vcc]

\* The virtual overloads a class may have in SpecCatch.
CatchOverloadPool ==
    { CatchOvl("make",  "A()",      TRUE,  FALSE, FALSE, FALSE),
      CatchOvl("self",  "A&()",     TRUE,  FALSE, FALSE, FALSE),
      CatchOvl("self",  "A&()",     FALSE, FALSE, FALSE, FALSE),
      CatchOvl("self",  "A&()",     FALSE, FALSE, TRUE,  FALSE),
      CatchOvl("ptr",   "A*()",     TRUE,  FALSE, FALSE, FALSE),
      CatchOvl("draw",  "void()",   TRUE,  FALSE, FALSE, FALSE),
      CatchOvl("draw",  "void()",   FALSE, FALSE, FALSE, FALSE),
      [CatchOvl("run",  "void()",   FALSE, FALSE, FALSE, FALSE)
            EXCEPT !.new_thread = TRUE],
      CatchOvl("area",  "double()", TRUE,  FALSE, FALSE, FALSE),
      CatchOvl("area",  "double()", FALSE, TRUE,  FALSE, FALSE),
      CatchOvl("area",  "double()", FALSE, FALSE, FALSE, FALSE),
      CatchOvl("label", "char*()",  FALSE, FALSE, FALSE, TRUE),
      CatchOvl("put",   "void(char*)", FALSE, FALSE, FALSE, TRUE) }

\* The virtual overloads a class may have in SpecParse: their handlers parse
\* a result, /Out/ arguments or both.
ParseOverloadPool ==
    { KeptOvl("kind",  "anon()",               FALSE, FALSE),
      KeptOvl("flag",  "F(Cap&)",              FALSE, FALSE),
      KeptOvl("items", "PyTuple(A*&)",         FALSE, FALSE),
      KeptOvl("list",  "PyList()",             FALSE, FALSE),
      KeptOvl("both",  "char*(char**,char**)", FALSE, FALSE),
      KeptOvl("get",   "void(int&,char**)",    FALSE, FALSE),
      KeptOvl("area",  "double()",             FALSE, FALSE) }

\* The virtual overloads a class may have in SpecCode.
CodeOverloadPool ==
    { KeptOvl("label", "char*()",     FALSE, TRUE),
      KeptOvl("put",   "void(char*)", FALSE, TRUE),
      KeptOvl("make",  "A()",         FALSE, TRUE),
      KeptOvl("name",  "char*()",     FALSE, FALSE) }

\* needs_error_flag and needs_old_error_flag of the %VirtualCatcherCode of
\* the module.
Flags(error_flag, old_error_flag) ==
    [error_flag |-> error_flag, old_error_flag |-> old_error_flag]

NoFlags == Flags(FALSE, FALSE)

\* The virtual overloads a class may have in SpecProt: E is a protected
\* enum and P a protected class.
ProtectedOverloadPool ==
    { KeptOvl("pick", "E(E,P&)",              FALSE, FALSE),
      KeptOvl("text", "char*(P,char**)",      FALSE, FALSE),
      KeptOvl("both", "char*(char**,char**)", FALSE, FALSE),
      CatchOvl("make", "A()",           TRUE, FALSE, FALSE, FALSE) }

\* A constructor: its access specifier and whether it has a C++ signature.
Ctor(acc, sig) == [exists |-> TRUE, access_specifier |-> acc,
                   cpp_signature |-> sig]

\* The value None of WrappedClass.default_ctor.
NoCtor == [exists |-> FALSE, access_specifier |-> "None",
           cpp_signature |-> FALSE]

\* The class A: whether it has %InstanceCode, and its default constructor.
ResultClass(code, ctor) ==
    [fq_cpp_name |-> "N::A", instance_code |-> code, default_ctor |-> ctor]

\* A class A that an instance can be made of.
UsableClass == ResultClass(FALSE, Ctor("PUBLIC", TRUE))

\* What the class A may be in SpecCatch.
ResultClasses ==
    { UsableClass,
      ResultClass(FALSE, NoCtor),
      ResultClass(FALSE, Ctor("PROTECTED", TRUE)),
      ResultClass(FALSE, Ctor("PUBLIC", FALSE)),
      ResultClass(TRUE, NoCtor) }

\* The classes that have virtual overloads: Circle is a sub-class of Shape.
VirtualClasses == {"Shape", "Circle"}

\* The virtual overloads a class may have.
VirtualOverloadPool ==
    { VOvl("area", "double()", "PUBLIC",    FALSE, FALSE),
      VOvl("area", "double()", "PUBLIC",    TRUE,  FALSE),
      VOvl("area", "double()", "PROTECTED", FALSE, TRUE),
      VOvl("name", "double()", "PUBLIC",    FALSE, FALSE),
      VOvl("draw", "void()",   "PUBLIC",    FALSE, FALSE),
      VOvl("draw", "void()",   "PRIVATE",   FALSE, FALSE) }

(***************************************************************************)
(*                       THE PARSER AND THE RESOLVER                       *)
(***************************************************************************)
\* The parser caches a name (not yet used by any generated code).
CacheName(n) ==
    /\ pc = "parse"
    /\ n \notin DOMAIN cached
    /\ Cardinality(DOMAIN cached) < MaxNames
    /\ cached' = [m \in DOMAIN cached \cup {n} |->
                    IF m = n
                    THEN [used |-> FALSE, is_substring |-> FALSE, offset |-> NoOffset]
                    ELSE cached[m]]
    /\ name_cache' = [k \in DOMAIN name_cache \cup {Len(n)} |->
                        IF k \in DOMAIN name_cache
                        THEN (IF k = Len(n) THEN Append(name_cache[k], n)
                              ELSE name_cache[k])
                        ELSE <<n>>]
    /\ UNCHANGED <<name_cache_list, sipStrings, sipNameNr, pc>>
    /\ UNCHANGED <<graphVars, virtVars, partVars, extVars, outVars>>

\* The parser records that a cached name is referred to by generated code.
UseName(n) ==
    /\ pc = "parse"
    /\ n \in DOMAIN cached
    /\ ~cached[n].used
    /\ cached' = [cached EXCEPT ![n].used = TRUE]
    /\ UNCHANGED <<name_cache, name_cache_list, sipStrings, sipNameNr, pc>>
    /\ UNCHANGED <<graphVars, virtVars, partVars, extVars, outVars>>

\* _module_code: name_cache_list = _name_cache_as_list(spec.name_cache)
NameCacheAsList ==
    /\ pc = "parse"
    /\ LET lst == OrderedNameList(name_cache)
       IN  /\ name_cache_list' = lst
           /\ cached' = SetOffsets(lst, 1, cached, 0)
    /\ pc' = "listed"
    /\ UNCHANGED <<name_cache, sipStrings, sipNameNr>>
    /\ UNCHANGED <<graphVars, virtVars, partVars, extVars, outVars>>

\* _module_code: _name_cache(sf, spec, name_cache_list)
NameCache ==
    /\ pc = "listed"
    /\ sipStrings' = PoolBytes(name_cache_list, cached)
    /\ pc' = "strings"
    /\ UNCHANGED <<cached, name_cache, name_cache_list, sipNameNr>>
    /\ UNCHANGED <<graphVars, virtVars, partVars, extVars, outVars>>

\* _internal_api_header: the extern declarations of the table of the types
\* of the module and of the tables of the types imported from each module.
InternalApiHeaderExterns ==
    (IF Len(needed_types) /= 0 THEN <<"sipExportedTypes_m">> ELSE <<>>)
        \o SelectSeq(
                [i \in DOMAIN all_imports |->
                    IF Len(all_imports[i].needed_types) /= 0
                    THEN "sipImportedTypes_m_" \o all_imports[i].py_name
                    ELSE ""],
                LAMBDA d : d /= "")

\* _internal_api_header: the macros whose definition depends on the ABI
\* version.
InternalApiHeaderDefines ==
    (IF AbiAtLeast(abi_version, 13, 0)
     THEN (IF AbiAtLeast(abi_version, 13, 8)
           THEN {"sipTypeGetExtensionData", "sipTypeSetExtensionData"}
           ELSE {})
          \cup (IF AbiAtLeast(abi_version, 13, 6)
                THEN {"sipPyTypeDictRef"} ELSE {})
          \cup (IF AbiAtLeast(abi_version, 13, 1)
                THEN {"sipNextExceptionHandler"} ELSE {})
          \cup {"sipIsEnumFlag", "sipConvertToTypeUS",
                "sipForceConvertToTypeUS", "sipReleaseTypeUS"}
     ELSE (IF AbiAtLeast(abi_version, 12, 15)
           THEN {"sipTypeGetExtensionData", "sipTypeSetExtensionData"}
           ELSE {})
          \cup (IF AbiAtLeast(abi_version, 12, 13)
                THEN {"sipPyTypeDictRef"} ELSE {})
          \cup (IF AbiAtLeast(abi_version, 12, 9)
                THEN {"sipNextExceptionHandler"} ELSE {})
          \cup {"sipSetNewUserTypeHandler", "sipGetFrame",
                "sipSetDestroyOnExit", "sipConnectRx"})
    \cup {"sipIsPyMethod"}

\* _internal_api_header: the sipNameNr_ and sipName_ defines of the used
\* names and the extern declarations.
InternalApiHeaderNames ==
    /\ pc = "module"
    /\ sipNameNr' = [n \in {m \in Range(name_cache_list) : cached[m].used} |->
                        cached[n].offset]
    /\ header_externs' = InternalApiHeaderExterns
    /\ header_defines' = InternalApiHeaderDefines
    /\ pc' = "header"
    /\ UNCHANGED <<cached, name_cache, name_cache_list, sipStrings>>
    /\ UNCHANGED <<graphVars, virtVars, partVars, extVars, tables, refs, catchers,
                   handlers, next_key, kept_keys, handler_calls, handler_defs,
                   init_code, sources, error, catcher_code,
                   handler_code, property_rows, emitted_graph>>


\* The parser's cache of a name that generated code refers to: the name is
\* added to the cache if it is new, and marked as used.
CacheUsedName(nc, n) ==
    [cached |->
        [m \in DOMAIN nc.cached \cup {n} |->
            IF m = n
            THEN [used |-> TRUE, is_substring |-> FALSE, offset |-> NoOffset]
            ELSE nc.cached[m]],
     name_cache |->
        IF n \in DOMAIN nc.cached THEN nc.name_cache
        ELSE [k \in DOMAIN nc.name_cache \cup {Len(n)} |->
                IF k \in DOMAIN nc.name_cache
                THEN (IF k = Len(n) THEN Append(nc.name_cache[k], n)
                      ELSE nc.name_cache[k])
                ELSE <<n>>]]

RECURSIVE CacheUsedNames(_, _)
CacheUsedNames(nc, names) ==
    IF names = <<>> THEN nc
    ELSE CacheUsedNames(CacheUsedName(nc, NameChars(Head(names))), Tail(names))

\* The parser adds an entity named by names to the graph.
Named(names) ==
    LET nc == CacheUsedNames([cached |-> cached, name_cache |-> name_cache], names)
    IN  /\ cached' = nc.cached
        /\ name_cache' = nc.name_cache
        /\ UNCHANGED <<name_cache_list, sipStrings, sipNameNr, pc>>

AddVariable(max, v) ==
    /\ pc = "parse"
    /\ GraphSize < max
    /\ v \notin Range(variables)
    /\ v.py_name \notin ScopeNames(v.scope)
    /\ v.scope = "T" => scope_type /= "mapped"
    /\ variables' = Append(variables, v)
    /\ Named(<<v.py_name>>)
    /\ UNCHANGED <<abi_version, c_bindings, scope_type, members, global_functions,
                   enums, superclasses, all_imports, needed_types>>
    /\ UNCHANGED <<virtVars, partVars, extVars, outVars>>

AddMember(max, m) ==
    /\ pc = "parse"
    /\ GraphSize < max
    /\ m.py_name \notin ScopeNames("T")
    /\ m.py_slot /= NoSlot => scope_type = "class"
    /\ members' = Append(members, m)
    /\ Named(<<m.py_name>>)
    /\ UNCHANGED <<abi_version, c_bindings, scope_type, variables, global_functions,
                   enums, superclasses, all_imports, needed_types>>
    /\ UNCHANGED <<virtVars, partVars, extVars, outVars>>

AddGlobalFunction(max, m) ==
    /\ pc = "parse"
    /\ GraphSize < max
    /\ m.py_name \notin ScopeNames("module")
    /\ global_functions' = Append(global_functions, m)
    /\ Named(<<m.py_name>>)
    /\ UNCHANGED <<abi_version, c_bindings, scope_type, variables, members,
                   enums, superclasses, all_imports, needed_types>>
    /\ UNCHANGED <<virtVars, partVars, extVars, outVars>>

AddEnum(max, e) ==
    /\ pc = "parse"
    /\ GraphSize < max
    /\ e \notin Range(enums)
    /\ ({e.py_name} \cup Range(e.members)) \cap ScopeNames(e.scope) = {}
    /\ enums' = Append(enums, e)
    /\ needed_types' =
            IF e.needed
            THEN Append(needed_types, Needed("ENUM", e.fq_cpp_name, FALSE, FALSE))
            ELSE needed_types
    /\ Named((IF e.py_name = NoName THEN <<>> ELSE <<e.py_name>>) \o e.members)
    /\ UNCHANGED <<abi_version, c_bindings, scope_type, variables, members,
                   global_functions, superclasses, all_imports>>
    /\ UNCHANGED <<virtVars, partVars, extVars, outVars>>

\* A class has no direct base class twice.
AddSuperclass(max, c) ==
    /\ pc = "parse"
    /\ GraphSize < max
    /\ scope_type = "class"
    /\ c \notin Range(superclasses)
    /\ superclasses' = Append(superclasses, c)
    /\ UNCHANGED <<abi_version, c_bindings, scope_type, variables, members,
                   global_functions, enums, all_imports, needed_types>>
    /\ UNCHANGED namesVars
    /\ UNCHANGED <<virtVars, partVars, extVars, outVars>>

AddImport(max, mod) ==
    /\ pc = "parse"
    /\ GraphSize < max
    /\ mod \notin Range(all_imports)
    /\ all_imports' = Append(all_imports, mod)
    /\ UNCHANGED <<abi_version, c_bindings, scope_type, variables, members,
                   global_functions, enums, superclasses, needed_types>>
    /\ UNCHANGED namesVars
    /\ UNCHANGED <<virtVars, partVars, extVars, outVars>>

\* The parser appends an interface file to the interface files.
AddIfaceFile(f) ==
    /\ pc = "parse"
    /\ Len(iface_files) < MaxIfaceFiles
    /\ f \notin Range(iface_files)
    /\ iface_files' = Append(iface_files, f)
    /\ UNCHANGED parts
    /\ UNCHANGED namesVars
    /\ UNCHANGED <<graphVars, virtVars, extVars, outVars>>

\* The resolver appends an entry to the needed types of the module; its
\* type_nr is its position in the list.
AddNeededType(max, t) ==
    /\ pc = "parse"
    /\ GraphSize < max
    /\ t \notin Range(needed_types)
    /\ needed_types' = Append(needed_types, t)
    /\ UNCHANGED <<abi_version, c_bindings, scope_type, variables, members,
                   global_functions, enums, superclasses, all_imports>>
    /\ UNCHANGED namesVars
    /\ UNCHANGED <<virtVars, partVars, extVars, outVars>>

\* The number of virtual overloads of the classes.
NrVirtualOverloads ==
    Len(virtual_overloads["Shape"]) + Len(virtual_overloads["Circle"])

\* The handler_nr of the handler of spec.virtual_handlers that has the
\* signature and the annotations of an overload, or the number of handlers
\* if there is none.
HandlerFor(o) ==
    LET Same(h) ==
            /\ h.cpp_signature = o.cpp_signature
            /\ h.abort_on_exception = o.abort_on_exception
            /\ h.virtual_catcher_code = o.virtual_catcher_code
    IN  IF \E i \in DOMAIN virtual_handlers : Same(virtual_handlers[i])
        THEN (CHOOSE i \in DOMAIN virtual_handlers :
                Same(virtual_handlers[i])) - 1
        ELSE Len(virtual_handlers)

\* The resolver gives a class a virtual overload: the overload shares the
\* handler of the overloads that have its signature, whatever their class.
AddVirtualOverload(max, klass, o) ==
    /\ pc = "parse"
    /\ NrVirtualOverloads < max
    /\ \A i \in DOMAIN virtual_overloads[klass] :
            virtual_overloads[klass][i].overload /= o
    /\ LET nr == HandlerFor(o)
       IN  /\ virtual_overloads' =
                [virtual_overloads EXCEPT
                    ![klass] = Append(@, [overload |-> o, handler |-> nr])]
           /\ virtual_handlers' =
                IF nr = Len(virtual_handlers)
                THEN Append(virtual_handlers,
                        [handler_nr |-> nr, cpp_signature |-> o.cpp_signature,
                         abort_on_exception |-> o.abort_on_exception,
                         virtual_catcher_code |-> o.virtual_catcher_code])
                ELSE virtual_handlers
    /\ UNCHANGED <<namesVars, graphVars, partVars, extVars, outVars>>

(***************************************************************************)
(*                           THE GENERATED TABLES                          *)
(*                                                                         *)
(* A table is [name, rows]; a row is the sequence of its fields.           *)
(***************************************************************************)
SIP_NULLPTR == "SIP_NULLPTR"

\* _optional_ptr
OptionalPtr(is_ptr, name) == IF is_ptr THEN name ELSE SIP_NULLPTR

\* _class_object_ref, for the scope T
ClassObjectRef(test, object_name) ==
    IF test THEN object_name \o "_T" ELSE SIP_NULLPTR

\* The suffix _write_instances_table gives the name of a table.
Suffix(scope) == IF scope = "module" THEN "" ELSE "_T"

\* ', '.join('0' * len(instances[0]))
Sentinals(n) == [i \in 1..n |-> "0"]

\* The rows _write_instances_table writes for a non-empty list of instances.
InstanceRowsNoSentinal(instances) == instances

InstanceRows(instances) == instances \o <<Sentinals(Len(instances[1]))>>

WriteInstancesTableAlways(scope, instances, table) ==
    <<[name |-> table \o Suffix(scope),
       rows |-> instances \o <<Sentinals(2)>>]>>

\* _write_instances_table: the tables written (none or one).
WriteInstancesTable(scope, instances, table) ==
    IF Len(instances) = 0 THEN <<>>
    ELSE <<[name |-> table \o Suffix(scope), rows |-> InstanceRows(instances)]>>

\* _variables_in_scope with check_handler=True, as a sequence.
VariablesInScope(scope) ==
    SelectSeq(variables,
        LAMBDA v : v.scope = scope /\ v.this_module /\ ~v.needs_handler)

IsClassInstanceNoSkip(v) ==
    ~(v.type /= "CLASS" /\ (v.type /= "ENUM" \/ ~v.named))

\* _class_instances: the variables that go in typeInstances.
IsClassInstance(v) ==
    /\ ~(v.type /= "CLASS" /\ (v.type /= "ENUM" \/ ~v.named))
    /\ ~(~c_bindings /\ ~v.access_code /\ v.derefs = 0)

ClassInstanceRow(v) ==
    <<v.py_name,
      IF v.type = "CLASS" /\ v.access_code THEN "access" ELSE "ptr",
      "type",
      IF v.type /= "CLASS" THEN "0"
      ELSE IF v.access_code THEN "SIP_ACCFUNC|SIP_NOT_IN_MAP"
      ELSE IF v.derefs /= 0 THEN "SIP_INDIRECT"
      ELSE "0">>

ClassInstances(scope) ==
    MapSeq(ClassInstanceRow, SelectSeq(VariablesInScope(scope), IsClassInstance))

\* _void_pointer_instances
VoidPointerInstances(scope) ==
    MapSeq(LAMBDA v : <<v.py_name, "val">>,
        SelectSeq(VariablesInScope(scope),
            LAMBDA v : v.type \in {"VOID", "STRUCT", "UNION"}))

CharTypes ==
    {"ASCII_STRING", "LATIN1_STRING", "UTF8_STRING", "SSTRING", "USTRING",
     "STRING"}

\* _char_instances
CharInstances(scope) ==
    MapSeq(LAMBDA v : <<v.py_name, "val", "encoding">>,
        SelectSeq(VariablesInScope(scope),
            LAMBDA v : ~(v.type \notin CharTypes \/ v.derefs /= 0)))

\* _string_instances
StringInstances(scope) ==
    MapSeq(LAMBDA v : <<v.py_name, "val", "encoding">>,
        SelectSeq(VariablesInScope(scope),
            LAMBDA v : ~((v.type \notin CharTypes \/ v.derefs = 0)
                            /\ v.type /= "WSTRING")))

IntTypes ==
    {"ENUM", "BYTE", "SBYTE", "UBYTE", "USHORT", "SHORT", "CINT", "INT",
     "BOOL", "CBOOL"}

EnumMemberRows(e) == MapSeq(LAMBDA n : <<n, "val">>, e.members)

\* needed_type.definition of an entry that is an enum
Definition(t) == CHOOSE e \in Range(enums) : e.fq_cpp_name = t.name

\* The enums of module.needed_types, in the order of that list.
NeededEnums ==
    MapSeq(Definition, SelectSeq(needed_types, LAMBDA t : t.type = "ENUM"))

IntInstancesOfAnyAbi(scope) ==
    (IF AbiAtLeast(abi_version, 13, 0)
     THEN Concat(MapSeq(EnumMemberRows,
              SelectSeq(NeededEnums,
                  LAMBDA e : ~(e.scope /= scope \/ ~e.this_module))))
     ELSE <<>>)
    \o MapSeq(LAMBDA v : <<v.py_name, "val">>,
           SelectSeq(VariablesInScope(scope),
               LAMBDA v : /\ v.type \in IntTypes
                          /\ ~(v.type = "ENUM" /\ v.named)))
    \o Concat(MapSeq(EnumMemberRows,
           SelectSeq(enums,
               LAMBDA e : /\ ~(e.scope /= scope \/ ~e.this_module)
                          /\ e.fq_cpp_name = NoName)))

\* _int_instances
IntInstances(scope) ==
    (IF AbiAtLeast(abi_version, 13, 0)
     THEN Concat(MapSeq(EnumMemberRows,
              SelectSeq(NeededEnums,
                  LAMBDA e : ~(e.scope /= scope \/ ~e.this_module))))
     ELSE <<>>)
    \o MapSeq(LAMBDA v : <<v.py_name, "val">>,
           SelectSeq(VariablesInScope(scope),
               LAMBDA v : /\ v.type \in IntTypes
                          /\ ~(v.type = "ENUM" /\ v.named)))
    \o (IF AbiAtLeast(abi_version, 13, 0) \/ scope = "module"
        THEN Concat(MapSeq(EnumMemberRows,
                 SelectSeq(enums,
                     LAMBDA e : /\ ~(e.scope /= scope \/ ~e.this_module)
                                /\ e.fq_cpp_name = NoName)))
        ELSE <<>>)

\* _write_int_instances
WriteIntInstances(scope, target_type) ==
    MapSeq(LAMBDA v : <<v.py_name, "val">>,
        SelectSeq(VariablesInScope(scope),
            LAMBDA v :
                (IF v.type \in {"UINT", "SIZE"} /\ target_type = "ULONG"
                 THEN "ULONG" ELSE v.type) = target_type))

\* _double_instances
DoubleInstances(scope) ==
    MapSeq(LAMBDA v : <<v.py_name, "val">>,
        SelectSeq(VariablesInScope(scope),
            LAMBDA v : v.type \in {"FLOAT", "CFLOAT", "DOUBLE", "CDOUBLE"}))

\* The instance tables in the order they are generated.
InstanceTables ==
    <<"typeInstances", "voidPtrInstances", "charInstances", "stringInstances",
      "intInstances", "longInstances", "unsignedLongInstances",
      "longLongInstances", "unsignedLongLongInstances", "doubleInstances">>

\* The instances each of the instance table generators collects.
Instances(table, scope) ==
    CASE table = "typeInstances"             -> ClassInstances(scope)
      [] table = "voidPtrInstances"          -> VoidPointerInstances(scope)
      [] table = "charInstances"             -> CharInstances(scope)
      [] table = "stringInstances"           -> StringInstances(scope)
      [] table = "intInstances"              -> IntInstances(scope)
      [] table = "longInstances"             -> WriteIntInstances(scope, "LONG")
      [] table = "unsignedLongInstances"     -> WriteIntInstances(scope, "ULONG")
      [] table = "longLongInstances"         -> WriteIntInstances(scope, "LONGLONG")
      [] table = "unsignedLongLongInstances" -> WriteIntInstances(scope, "ULONGLONG")
      [] table = "doubleInstances"           -> DoubleInstances(scope)

\* "Generate each instance table": the tables written for a scope.
AllInstanceTables(scope) ==
    Concat(MapSeq(LAMBDA t : WriteInstancesTable(scope, Instances(t, scope), t),
               InstanceTables))

\* The is_inst_* results: whether a table was written.
IsInst(table, scope) == Len(Instances(table, scope)) /= 0

\* The place of a member in sorted(members, key=py_name): after the members
\* that do not sort after it, as the sort is stable.
RECURSIVE InsertMember(_, _)
InsertMember(m, s) ==
    IF s = <<>> THEN <<m>>
    ELSE IF StrLess(NameChars(m.py_name), NameChars(Head(s).py_name))
         THEN <<m>> \o s
         ELSE <<Head(s)>> \o InsertMember(m, Tail(s))

GetMembersInDeclarationOrder(ms) == ms

\* _get_sorted_members
RECURSIVE GetSortedMembers(_)
GetSortedMembers(ms) ==
    IF ms = <<>> THEN <<>>
    ELSE InsertMember(ms[Len(ms)], GetSortedMembers(SubSeq(ms, 1, Len(ms) - 1)))

\* Whether a member has an overload that gives it an entry point.
HasEntryPoint(m) ==
    \E i \in DOMAIN m.overloads :
        /\ ~m.overloads[i].pyqt_is_signal
        /\ ~(m.overloads[i].access_specifier = "PRIVATE"
                /\ m.overloads[i].is_abstract)

GetMethodMembersWithSlots ==
    GetSortedMembers(SelectSeq(members, HasEntryPoint))

\* _get_method_members
GetMethodMembers ==
    GetSortedMembers(
        SelectSeq(members, LAMBDA m : m.py_slot = NoSlot /\ HasEntryPoint(m)))

\* _find_method_index
FindMethodIndex(name) ==
    LET named == {i \in DOMAIN members : members[i].py_name = name}
    IN  IF named = {} THEN -1
        ELSE (CHOOSE i \in named : \A j \in named : i <= j) - 1

\* _type_definition: the row of a property in the variables table of T.
PropertyRow(prop) ==
    <<"PropertyVariable", prop.name,
      "&methods_T[" \o ToString(FindMethodIndex(prop.getter)) \o "]",
      IF prop.setter = NoSetter THEN SIP_NULLPTR
      ELSE "&methods_T[" \o ToString(FindMethodIndex(prop.setter)) \o "]",
      SIP_NULLPTR>>

\* The members _class_method_table and _mapped_type_cpp pass to
\* _py_method_table.
MethodMembers ==
    IF scope_type = "class" THEN GetMethodMembers
    ELSE GetSortedMembers(members)

MethodRow(m) ==
    <<m.py_name, "meth_T_" \o m.py_name, "METH_VARARGS", SIP_NULLPTR>>

\* The rows _py_method_table writes for a non-empty list of members.
MethodRows(ms) == MapSeq(MethodRow, ms)

\* _py_method_table: the tables written (none or one).
PyMethodTable(ms) ==
    IF Len(ms) = 0 THEN <<>>
    ELSE <<[name |-> "methods_T", rows |-> MethodRows(ms)]>>

\* The members of T that are slots.
SlotMembers == SelectSeq(members, LAMBDA m : m.py_slot /= NoSlot)

\* The rows of the slots table of a class that has slots.
SlotRows(ms) ==
    MapSeq(LAMBDA m : <<"slot_T_" \o m.py_name, m.py_slot>>, ms)
        \o << <<"0", "(sipPySlotType)0">> >>

\* The slots table of _type_definition: the tables written (none or one).
SlotsTable ==
    IF Len(SlotMembers) = 0 THEN <<>>
    ELSE <<[name |-> "slots_T", rows |-> SlotRows(SlotMembers)]>>

\* The enums whose members _enum_member_table collects for a scope.
EnumsOfTable(scope) ==
    SelectSeq(enums,
        LAMBDA e :
            /\ e.this_module
            /\ e.scope = scope
            /\ (scope = "module" => e.fq_cpp_name /= NoName))

\* The place of an enum member in the list sorted by name.
RECURSIVE InsertRow(_, _)
InsertRow(r, s) ==
    IF s = <<>> THEN <<r>>
    ELSE IF StrLess(NameChars(r[1]), NameChars(Head(s)[1]))
         THEN <<r>> \o s
         ELSE <<Head(s)>> \o InsertRow(r, Tail(s))

RECURSIVE SortRows(_)
SortRows(rs) ==
    IF rs = <<>> THEN <<>>
    ELSE InsertRow(rs[Len(rs)], SortRows(SubSeq(rs, 1, Len(rs) - 1)))

\* The enum members of a scope, sorted, each with the name of its enum.
EnumMembers(scope) ==
    SortRows(Concat(MapSeq(
        LAMBDA e : MapSeq(LAMBDA n : <<n, "val", e.fq_cpp_name>>, e.members),
        EnumsOfTable(scope))))

\* _enum_member_table: the tables written (none or one).
EnumMemberTable(scope) ==
    IF Len(EnumMembers(scope)) = 0 THEN <<>>
    ELSE <<[name |-> "enummembers" \o Suffix(scope),
            rows |-> EnumMembers(scope)]>>

\* The variables of T that have a getter and maybe a setter.
HandledVariables ==
    SelectSeq(variables, LAMBDA v : v.scope = "T" /\ v.needs_handler)

\* The variables table of _type_definition: the tables written (none or one).
VariablesTable ==
    IF Len(HandledVariables) = 0 THEN <<>>
    ELSE <<[name |-> "variables_T",
            rows |-> MapSeq(
                LAMBDA v : <<"InstanceVariable", v.py_name,
                             "varget_T_" \o v.py_name, SIP_NULLPTR,
                             SIP_NULLPTR, SIP_NULLPTR>>,
                HandledVariables)]>>

\* Whether a module is in module.all_imports.
IsImported(mod) == \E i \in DOMAIN all_imports : all_imports[i].py_name = mod

ModuleNrOneBased(mod) ==
    CHOOSE i \in DOMAIN all_imports :
        /\ all_imports[i].py_name = mod
        /\ \A j \in 1..(i - 1) : all_imports[j].py_name /= mod

\* The module_nr at which enumerate(module.all_imports) finds a module.
ModuleNr(mod) ==
    (CHOOSE i \in DOMAIN all_imports :
        /\ all_imports[i].py_name = mod
        /\ \A j \in 1..(i - 1) : all_imports[j].py_name /= mod) - 1

\* _encoded_type: the fields of the structure.
EncodedType(klass, last) ==
    <<ToString(klass.type_nr)>>
        \o (IF klass.module = "m" THEN <<"255">>
            ELSE IF IsImported(klass.module)
                 THEN <<ToString(ModuleNr(klass.module))>>
                 ELSE <<>>)
        \o <<IF last THEN "1" ELSE "0">>

\* superclass is klass.superclasses[-1]
IsLastSuperclass(i) == superclasses[i] = superclasses[Len(superclasses)]

\* The super-types table of _type_definition: the tables written (none or
\* one).
SupersTable ==
    IF Len(superclasses) = 0 THEN <<>>
    ELSE <<[name |-> "supers_T",
            rows |-> [i \in DOMAIN superclasses |->
                        EncodedType(superclasses[i], IsLastSuperclass(i))]]>>

\* A function of one argument.
One(k, v) == [x \in {k} |-> v]

\* The references of a descriptor to the tables of a list: the name of a
\* table that was written, SIP_NULLPTR for one that was not.
InstanceRefs(prefix, scope) ==
    [k \in {prefix \o InstanceTables[i] : i \in DOMAIN InstanceTables} |->
        LET t == CHOOSE n \in Range(InstanceTables) : prefix \o n = k
        IN  IF scope = "module" THEN OptionalPtr(IsInst(t, scope), t)
            ELSE ClassObjectRef(IsInst(t, scope), t)]

\* The number of rows and the reference that a descriptor has of a table.
Counted(field, nr, name) ==
    One("nr_" \o field, ToString(nr))
        @@ One(field, IF nr = 0 THEN SIP_NULLPTR ELSE name)

\* _type_definition: the tables of the class or namespace T.
TypeDefinitionTables ==
    SupersTable
        \o SlotsTable
        \o PyMethodTable(MethodMembers)
        \o (IF AbiAtLeast(abi_version, 13, 0) THEN <<>>
            ELSE EnumMemberTable("T"))
        \o VariablesTable
        \o AllInstanceTables("T")

\* _type_definition: the fields of sipTypeDef_m_T that refer to tables.
TypeDefinitionRefs ==
    Counted("T.methods", Len(MethodMembers), "methods_T")
        @@ (IF AbiAtLeast(abi_version, 13, 0) THEN <<>>
            ELSE Counted("T.enummembers", Len(EnumMembers("T")),
                     "enummembers_T"))
        @@ Counted("T.variables", Len(HandledVariables), "variables_T")
        @@ InstanceRefs("T.", "T")
        @@ One("T.supers", ClassObjectRef(Len(superclasses) /= 0, "supers"))
        @@ One("T.slots", ClassObjectRef(Len(SlotMembers) /= 0, "slots"))

\* _mapped_type_cpp: the tables of the mapped type T.
MappedTypeTables ==
    PyMethodTable(MethodMembers)
        \o (IF AbiAtLeast(abi_version, 13, 0)
            THEN WriteInstancesTable("T", IntInstances("T"), "intInstances")
            ELSE EnumMemberTable("T"))

\* _mapped_type_cpp: the fields of sipTypeDef_m_T that refer to tables.
MappedTypeRefs ==
    Counted("T.methods", Len(MethodMembers), "methods_T")
        @@ (IF AbiAtLeast(abi_version, 13, 0)
            THEN One("T.intInstances",
                     IF IsInst("intInstances", "T") THEN "intInstances_T"
                     ELSE SIP_NULLPTR)
            ELSE Counted("T.enummembers", Len(EnumMembers("T")),
                     "enummembers_T"))

\* The rows _types_table writes for the entry i of module.needed_types.
TypesTableRows(i) ==
    LET t == needed_types[i]
        enum_index ==
            Len(SelectSeq(SubSeq(needed_types, 1, i - 1),
                    LAMBDA u : u.type = "ENUM"))
    IN  CASE t.type = "CLASS" /\ t.external -> << <<"0">> >>
          [] t.type = "CLASS" /\ ~t.external /\ ~t.is_hidden_namespace ->
                << <<"&sipTypeDef_m_" \o t.name \o ".ctd_base">> >>
          [] t.type = "CLASS" /\ ~t.external /\ t.is_hidden_namespace -> <<>>
          [] t.type = "MAPPED" ->
                << <<"&sipTypeDef_m_" \o t.name \o ".mtd_base">> >>
          [] t.type = "ENUM" ->
                << <<"&enumTypes[" \o ToString(enum_index) \o "].etd_base">> >>

\* _types_table, called if module.needed_types is not empty: the tables
\* written (none or one).
TypesTable ==
    IF Len(needed_types) = 0 THEN <<>>
    ELSE <<[name |-> "sipExportedTypes_m",
            rows |-> Concat([i \in DOMAIN needed_types |-> TypesTableRows(i)])]>>

\* The tables of the types imported from each module of module.all_imports.
ImportedTypesTables ==
    Concat(MapSeq(
        LAMBDA mod :
            IF Len(mod.needed_types) = 0 THEN <<>>
            ELSE <<[name |-> "sipImportedTypes_m_" \o mod.py_name,
                    rows |-> MapSeq(LAMBDA n : <<n>>, mod.needed_types)
                                \o << <<SIP_NULLPTR>> >>]>>,
        all_imports))

ImportsTableOfNeededModules ==
    LET needed == SelectSeq(all_imports, LAMBDA mod : Len(mod.needed_types) /= 0)
    IN  IF Len(needed) = 0 THEN <<>>
        ELSE <<[name |-> "importsTable",
                rows |-> MapSeq(
                            LAMBDA mod :
                                <<mod.py_name,
                                  "sipImportedTypes_m_" \o mod.py_name,
                                  SIP_NULLPTR, SIP_NULLPTR>>,
                            needed)
                         \o << <<SIP_NULLPTR, SIP_NULLPTR, SIP_NULLPTR,
                                 SIP_NULLPTR>> >>]>>

\* importsTable: the tables written (none or one).
ImportsTable ==
    IF Len(all_imports) = 0 THEN <<>>
    ELSE <<[name |-> "importsTable",
            rows |-> MapSeq(
                        LAMBDA mod :
                            <<mod.py_name,
                              IF Len(mod.needed_types) /= 0
                              THEN "sipImportedTypes_m_" \o mod.py_name
                              ELSE SIP_NULLPTR,
                              SIP_NULLPTR, SIP_NULLPTR>>,
                        all_imports)
                     \o << <<SIP_NULLPTR, SIP_NULLPTR, SIP_NULLPTR,
                             SIP_NULLPTR>> >>]>>

\* _global_function_table_entries
GlobalFunctionTableEntries ==
    MapSeq(LAMBDA m : <<m.py_name, "func_" \o m.py_name, "METH_VARARGS",
                        SIP_NULLPTR>>,
        SelectSeq(global_functions, LAMBDA m : m.py_slot = NoSlot))

\* sip_methods, the table of the global functions of the module.
SipMethods ==
    <<[name |-> "sip_methods",
       rows |-> GlobalFunctionTableEntries
                   \o << <<SIP_NULLPTR, SIP_NULLPTR, "0", SIP_NULLPTR>> >>]>>

\* _types_inline: the sipAddTypeInstance statements of the variables that
\* are added inline, each with the scope whose dictionary it is added to.
TypesInline ==
    MapSeq(LAMBDA v : [stmt |-> "sipAddTypeInstance", scope |-> v.scope,
                       py_name |-> v.py_name],
        SelectSeq(variables,
            LAMBDA v :
                /\ v.this_module
                /\ v.type \in {"CLASS", "MAPPED", "ENUM"}
                /\ ~v.needs_handler
                /\ ~(c_bindings \/ v.access_code \/ v.derefs /= 0)))

\* _type_definition and _module_code: the sipTypeSetExtensionData
\* statements of the extension structures written for T.
SetExtensionData ==
    MapSeq(LAMBDA extension_name :
                [stmt |-> "sipTypeSetExtensionData", type |-> "sipType_T",
                 extension_name |-> extension_name,
                 structure_name |-> "extension_data_" \o extension_name
                                        \o "_T"],
        extensions)

ModuleInitTypesFirst ==
    TypesInline
        \o <<[stmt |-> "PyModule_Create"]>>
        \o SetExtensionData
        \o <<[stmt |-> "sipExportModule"], [stmt |-> "sipInitModule"]>>

\* _module_code: the statements of the module initialisation function that
\* set the module up.
ModuleInit ==
    <<[stmt |-> "PyModule_Create"]>>
        \o SetExtensionData
        \o <<[stmt |-> "sipExportModule"], [stmt |-> "sipInitModule"]>>
        \o TypesInline

\* The tables _module_code writes after the interface files.
ModuleTablesWritten ==
    (IF AbiAtLeast(abi_version, 13, 0) THEN <<>>
     ELSE EnumMemberTable("module"))
        \o TypesTable
        \o ImportedTypesTables
        \o ImportsTable
        \o AllInstanceTables("module")
        \o SipMethods

\* The fields of sipModuleAPI_m and of the module definition that refer to
\* tables.
ModuleRefs ==
    One("m.strings", "sipStrings_m")
        @@ One("m.imports", OptionalPtr(Len(all_imports) /= 0, "importsTable"))
        @@ One("m.nr_exported_types", ToString(Len(needed_types)))
        @@ One("m.exported_types",
               OptionalPtr(Len(needed_types) /= 0, "sipExportedTypes_m"))
        @@ (IF AbiAtLeast(abi_version, 13, 0) THEN <<>>
            ELSE One("m.nr_enummembers", ToString(Len(EnumMembers("module"))))
                 @@ One("m.enummembers",
                        OptionalPtr(Len(EnumMembers("module")) > 0,
                            "enummembers")))
        @@ InstanceRefs("m.", "module")
        @@ One("m.methods", "sip_methods")

UniqueAmongVisibleVirtualOverloads(klass) ==
    LET vos == virtual_overloads[klass]
        Unique(i) ==
            /\ vos[i].overload.access_specifier /= "PRIVATE"
            /\ \A j \in 1..(i - 1) :
                ~(/\ vos[j].overload.access_specifier /= "PRIVATE"
                  /\ vos[j].overload.cpp_name = vos[i].overload.cpp_name
                  /\ vos[j].overload.cpp_signature
                        = vos[i].overload.cpp_signature)
    IN  Concat([i \in DOMAIN vos |-> IF Unique(i) THEN <<vos[i]>> ELSE <<>>])

\* _unique_class_virtual_overloads: the non-private virtual overloads of a
\* class that no earlier one of the class has the name and signature of.
UniqueClassVirtualOverloads(klass) ==
    LET vos == virtual_overloads[klass]
        Unique(i) ==
            /\ vos[i].overload.access_specifier /= "PRIVATE"
            /\ \A j \in 1..(i - 1) :
                ~(/\ vos[j].overload.cpp_name = vos[i].overload.cpp_name
                  /\ vos[j].overload.cpp_signature
                        = vos[i].overload.cpp_signature)
    IN  Concat([i \in DOMAIN vos |-> IF Unique(i) THEN <<vos[i]>> ELSE <<>>])

\* _virtual_handler: the name of the function written for a handler.
VirtualHandlerName(handler) == "sipVH_m_" \o ToString(handler.handler_nr)

CalledHandlerOfClass(klass, vo) == "sipVH_m_" \o klass

\* _virtual_handler_call: the name of the function a catcher calls.
CalledHandler(klass, vo) == "sipVH_m_" \o ToString(vo.handler)

\* _virtual_catcher: what the catcher of a virtual overload does when there
\* is no Python reimplementation, and the handler it calls when there is.
VirtualCatcher(klass, vo) ==
    [klass |-> klass,
     cpp_name |-> vo.overload.cpp_name,
     cpp_signature |-> vo.overload.cpp_signature,
     no_override |->
        IF vo.overload.virtual_call_code THEN "virtual_call_code"
        ELSE IF vo.overload.is_abstract THEN "default_instance_return"
        ELSE klass \o "::" \o vo.overload.cpp_name,
     calls |-> CalledHandler(klass, vo)]

\* The catchers of the shadow class of a class.
ClassCatchers(klass) ==
    MapSeq(LAMBDA vo : VirtualCatcher(klass, vo),
        UniqueClassVirtualOverloads(klass))

(***************************************************************************)
(*                         THE KEPT REFERENCES                             *)
(*                                                                         *)
(* The keys taken so far are threaded through the generators as            *)
(* ks = [next_key, kept_keys].                                             *)
(***************************************************************************)
\* _keep_py_reference
KeepPyReference(arg) ==
    LET PyRefTypes == {"ASCII_STRING", "LATIN1_STRING", "UTF8_STRING",
                       "USTRING", "SSTRING", "STRING"}
    IN  arg.type \in PyRefTypes /\ ~arg.is_reference /\ arg.derefs > 0

TakeKeyNoDecrement(ks, mod, site) ==
    [ks EXCEPT !.kept_keys =
        Append(@, [site |-> site, module |-> mod, key |-> ks.next_key[mod]])]

\* "key = module.next_key" followed by "module.next_key -= 1"
TakeKey(ks, mod, site) ==
    [next_key |-> [ks.next_key EXCEPT ![mod] = @ - 1],
     kept_keys |-> Append(ks.kept_keys,
                      [site |-> site, module |-> mod, key |-> ks.next_key[mod]])]

\* _variable_getter: the keys of the getter of a variable.
VariableGetter(ks, v) ==
    IF v.type = "CLASS" /\ v.derefs = 0 /\ ~v.is_const
    THEN LET var == TakeKey(ks, v.type_module, "varget_" \o v.py_name)
         IN  IF ~v.is_static THEN TakeKey(var, "m", "varget_" \o v.py_name)
             ELSE var
    ELSE ks

\* _variable_setter: the key of the setter of a variable.
VariableSetter(ks, v) ==
    LET keep == KeepPyReference([type |-> v.type, is_reference |-> FALSE,
                                 derefs |-> v.derefs])
    IN  IF ~v.set_code /\ keep /\ ~v.is_static
        THEN TakeKey(ks, "m", "varset_" \o v.py_name)
        ELSE ks

\* _can_set_variable
CanSetVariable(v) == ~v.no_setter /\ ~(v.derefs = 0 /\ v.is_const)

\* _type_definition: "The property and variable handlers".
RECURSIVE VariableHandlers(_, _)
VariableHandlers(ks, vs) ==
    IF vs = <<>> THEN ks
    ELSE LET got == VariableGetter(ks, Head(vs))
         IN  VariableHandlers(
                 IF CanSetVariable(Head(vs)) THEN VariableSetter(got, Head(vs))
                 ELSE got,
                 Tail(vs))

\* The value the catcher and the handler of a signature return, if any.
ResultIsReturned(sig) ==
    Signature(sig).result.type /= "VOID" \/ Signature(sig).result.derefs /= 0

\* _virtual_handler_call: the values of the signature of an overload that
\* the catcher takes a key for: the result and then the arguments.
KeptValues(sig) ==
    (IF ResultIsReturned(sig) /\ KeepPyReference(Signature(sig).result)
     THEN <<"sipRes">> ELSE <<>>)
    \o Concat([i \in DOMAIN Signature(sig).args |->
            IF Signature(sig).args[i].is_out
                    /\ KeepPyReference(Signature(sig).args[i])
            THEN <<"a" \o ToString(i - 1)>> ELSE <<>>])

\* The keys that _virtual_handler_call takes for the values.
RECURSIVE TakeKeys(_, _, _)
TakeKeys(ks, values, site) ==
    IF values = <<>> THEN ks
    ELSE TakeKeys(TakeKey(ks, "m", site), Tail(values), site)

\* _virtual_handler_call: the declaration and the call of the handler that
\* are written in the catcher of a virtual overload of a class.
VirtualHandlerCall(ks, klass, vo) ==
    LET values == KeptValues(vo.overload.cpp_signature)
        taken  == TakeKeys(ks, values, klass \o "::" \o vo.overload.cpp_name)
    IN  [ks |-> taken,
         call |->
            [klass |-> klass,
             cpp_name |-> vo.overload.cpp_name,
             handler |-> CalledHandler(klass, vo),
             values |-> values,
             declared |-> [i \in DOMAIN values |-> "int"],
             passed |-> [i \in DOMAIN values |->
                            taken.kept_keys[Len(ks.kept_keys) + i].key]]]

\* _shadow_code: the handler calls of the catchers of a class, after the
\* calls and the keys of st.
RECURSIVE ShadowCode(_, _, _)
ShadowCode(st, klass, vos) ==
    IF vos = <<>> THEN st
    ELSE LET c == VirtualHandlerCall(st.ks, klass, Head(vos))
         IN  ShadowCode([ks |-> c.ks, calls |-> Append(st.calls, c.call)],
                 klass, Tail(vos))

HandlerKeyParamsOfAnyArgument(sig) ==
    (IF ResultIsReturned(sig) /\ KeepPyReference(Signature(sig).result)
     THEN <<"sipResKey">> ELSE <<>>)
    \o Concat([i \in DOMAIN Signature(sig).args |->
            IF KeepPyReference(Signature(sig).args[i])
            THEN <<"a" \o ToString(i - 1) \o "Key">> ELSE <<>>])

\* _virtual_handler: "Define the extra arguments for kept references", the
\* int parameters that follow the arguments of the signature of a handler.
HandlerKeyParams(sig) ==
    LET result == Signature(sig).result
        result_is_returned == result.type /= "VOID" \/ result.derefs /= 0
    IN  (IF result_is_returned /\ KeepPyReference(result)
         THEN <<"sipResKey">> ELSE <<>>)
        \o Concat([arg_nr \in DOMAIN Signature(sig).args |->
                LET arg == Signature(sig).args[arg_nr]
                IN  IF arg.is_out /\ KeepPyReference(arg)
                    THEN <<"a" \o ToString(arg_nr - 1) \o "Key">>
                    ELSE <<>>])

\* A parameter of sipParseResultEx that precedes the pointer to a value.
Param(kind, text) == [kind |-> kind, text |-> text]

\* get_gto_name: the type object of an enum, a class or a mapped type; the
\* fq_cpp_name of an anonymous enum is None, which has no as_word.
GetGtoName(arg) ==
    LET definition == IF "definition" \in DOMAIN arg THEN arg.definition
                      ELSE "A"
    IN  IF arg.type = "ENUM" /\ definition = AnonymousEnum
        THEN Param("raise", "AttributeError")
        ELSE Param("type", "sipType_" \o definition)

\* _add_parse_result_extra_params: arg_nr is -1 for the result.
AddParseResultExtraParams(arg, arg_nr) ==
    IF arg.type \in {"CLASS", "MAPPED", "ENUM"} THEN <<GetGtoName(arg)>>
    ELSE IF arg.type = "PYTUPLE" THEN <<Param("type", "&PyTuple_Type")>>
    ELSE IF arg.type = "PYLIST" THEN <<Param("type", "&PyList_Type")>>
    ELSE IF arg.type = "PYDICT" THEN <<Param("type", "&PyDict_Type")>>
    ELSE IF arg.type = "PYTYPE" THEN <<Param("type", "&PyType_Type")>>
    ELSE IF arg.type = "CAPSULE"
    THEN <<Param("capsule", arg.definition)>>
    ELSE IF KeepPyReference(arg)
    THEN <<Param("key", IF arg_nr < 0 THEN "sipResKey"
                        ELSE "a" \o ToString(arg_nr) \o "Key")>>
    ELSE <<>>

\* _get_parse_result_format, of the types that the signatures have;
\* transfer_result and disallow_none are False.
GetParseResultFormat(arg, result_is_reference) ==
    LET allow_none == "allow_none" \in DOMAIN arg /\ arg.allow_none
        f == IF arg.derefs = 0
             THEN 1 + (IF ~result_is_reference THEN 4 ELSE 0)
             ELSE IF arg.derefs = 1 /\ arg.is_out THEN 4
             ELSE 0
    IN  IF arg.type \in {"MAPPED", "FAKE_VOID", "CLASS"}
        THEN "H" \o ToString(f)
        ELSE IF arg.type \in {"SSTRING", "USTRING", "STRING"}
        THEN (IF arg.derefs = 0 THEN "c" ELSE "B")
        ELSE IF arg.type = "ENUM"
        THEN (IF arg.definition /= AnonymousEnum THEN "F" ELSE "e")
        ELSE IF arg.type = "INT" THEN "i"
        ELSE IF arg.type = "CAPSULE" THEN "z"
        ELSE IF arg.type = "DOUBLE" THEN "d"
        ELSE IF arg.type \in {"PYTUPLE", "PYLIST", "PYDICT", "PYTYPE"}
        THEN (IF allow_none THEN "N" ELSE "T")
        ELSE " "

\* _virtual_handler: the values that the call of sipParseResultEx parses,
\* the result then the /Out/ arguments: the format of each, the parameters
\* that precede its pointer and its pointer.
ParseResult(handler) ==
    LET sig == Signature(handler.cpp_signature)
        result_is_returned == ResultIsReturned(handler.cpp_signature)
        result_is_reference ==
            /\ result_is_returned
            /\ sig.result.type \in {"CLASS", "MAPPED"}
            /\ sig.result.derefs = 0
            /\ sig.result.is_reference
    IN  (IF result_is_returned
         THEN <<[format |-> GetParseResultFormat(sig.result,
                                result_is_reference),
                 extra |-> AddParseResultExtraParams(sig.result, -1),
                 pointer |-> "&sipRes"]>>
         ELSE <<>>)
        \o Concat([i \in DOMAIN sig.args |->
                IF sig.args[i].is_out
                THEN <<[format |-> GetParseResultFormat(sig.args[i], FALSE),
                        extra |-> AddParseResultExtraParams(sig.args[i],
                                      i - 1),
                        pointer |-> (IF sig.args[i].is_reference THEN "&"
                                     ELSE "") \o "a" \o ToString(i - 1)]>>
                ELSE <<>>])

\* _virtual_handler: the definition of the function of a handler.
VirtualHandler(handler) ==
    LET sig == Signature(handler.cpp_signature)
        result_is_returned == ResultIsReturned(handler.cpp_signature)
        result_is_reference ==
            /\ result_is_returned
            /\ sig.result.type \in {"CLASS", "MAPPED"}
            /\ sig.result.derefs = 0
            /\ sig.result.is_reference
        nr_values ==
            (IF result_is_returned THEN 1 ELSE 0)
                + Len(SelectSeq(sig.args, LAMBDA a : a.is_out))
        rc == result_is_reference \/ handler.abort_on_exception
        head == [name |-> VirtualHandlerName(handler),
                 keys |-> HandlerKeyParams(handler.cpp_signature),
                 catcher_code |-> handler.virtual_catcher_code,
                 result_is_returned |-> result_is_returned,
                 result_is_reference |-> result_is_reference,
                 nr_values |-> nr_values]
    IN  IF handler.virtual_catcher_code
        THEN head @@ [calls |-> "virtual_catcher_code", sipRc |-> FALSE,
                      parse |-> <<>>, on_failure |-> "none"]
        ELSE IF nr_values = 0
        THEN head @@ [calls |-> "sipCallProcedureMethod", sipRc |-> FALSE,
                      parse |-> <<>>, on_failure |-> "none"]
        ELSE head @@ [calls |-> "sipParseResultEx", sipRc |-> rc,
                      parse |-> ParseResult(handler),
                      on_failure |->
                        IF result_is_returned /\ rc
                        THEN (IF handler.abort_on_exception THEN "abort"
                              ELSE "default_instance_return")
                        ELSE "none"]

(***************************************************************************)
(*                          THE PROTECTED TYPES                            *)
(*                                                                         *)
(* The part of the graph that the generator writes and restores: g is      *)
(* [signatures, is_protected], the arguments of each signature and the     *)
(* is_protected flag of each enum and class.                               *)
(***************************************************************************)
SignatureNames ==
    {"double()", "void()", "char*()", "A&()", "A()", "A*()", "void(char*)",
     "void(int&,char**)", "char*(char**,char**)", "E(E,P&)",
     "char*(P,char**)", "anon()", "F(Cap&)", "PyTuple(A*&)", "PyList()"}

\* An argument of the graph: the definition of its type, if it has one, and
\* its key (0 for the None of an argument that has no key).
GraphArgument(arg) ==
    [type |-> arg.type, derefs |-> arg.derefs,
     is_reference |-> arg.is_reference, is_const |-> FALSE, key |-> 0,
     definition |-> IF "definition" \in DOMAIN arg THEN arg.definition
                    ELSE "None"]

\* The graph that the parser hands to the generator: E is a protected enum,
\* P a protected class and A a public class.
ParsedGraph ==
    [signatures |->
        [sig \in SignatureNames |->
            [result |-> GraphArgument(Signature(sig).result),
             args |-> MapSeq(GraphArgument, Signature(sig).args)]],
     is_protected |-> [d \in {"E", "P", "A"} |-> d \in {"E", "P"}]]

\* arg.definition.is_protected of an enum or a class.
IsProtected(g, arg) ==
    /\ arg.definition \in DOMAIN g.is_protected
    /\ g.is_protected[arg.definition]

\* _fake_protected_args: the graph with the protected arguments of a
\* signature faked, and what is saved of each argument.
FakeProtectedArgs(g, sig) ==
    LET args == g.signatures[sig].args
        IsEnum(a) == a.type = "ENUM" /\ IsProtected(g, a)
        IsClass(a) == a.type = "CLASS" /\ IsProtected(g, a)
    IN  [g |-> [g EXCEPT !.signatures[sig].args =
                    [i \in DOMAIN args |->
                        IF IsEnum(args[i])
                        THEN [args[i] EXCEPT !.type = "INT"]
                        ELSE IF IsClass(args[i])
                        THEN [args[i] EXCEPT !.type = "FAKE_VOID",
                                             !.derefs = 1,
                                             !.is_reference = FALSE]
                        ELSE args[i]]],
         protection_state |->
            [i \in DOMAIN args |->
                IF IsEnum(args[i])
                THEN [saved |-> "Argument", derefs |-> 0,
                      is_reference |-> FALSE]
                ELSE IF IsClass(args[i])
                THEN [saved |-> "tuple", derefs |-> args[i].derefs,
                      is_reference |-> args[i].is_reference]
                ELSE [saved |-> "None", derefs |-> 0,
                      is_reference |-> FALSE]]]

RestoreProtectedArgsAsValues(g, sig, protection_state) ==
    [g EXCEPT !.signatures[sig].args =
        [i \in DOMAIN @ |->
            IF protection_state[i].saved = "Argument"
            THEN [@[i] EXCEPT !.type = "ENUM"]
            ELSE IF protection_state[i].saved = "tuple"
            THEN [@[i] EXCEPT !.type = "CLASS",
                              !.derefs = protection_state[i].derefs]
            ELSE @[i]]]

\* _restore_protected_args
RestoreProtectedArgs(g, sig, protection_state) ==
    [g EXCEPT !.signatures[sig].args =
        [i \in DOMAIN @ |->
            IF protection_state[i].saved = "Argument"
            THEN [@[i] EXCEPT !.type = "ENUM"]
            ELSE IF protection_state[i].saved = "tuple"
            THEN [@[i] EXCEPT !.type = "CLASS",
                              !.derefs = protection_state[i].derefs,
                              !.is_reference =
                                    protection_state[i].is_reference]
            ELSE @[i]]]

\* _remove_protection of each of a list of arguments: the graph without
\* the protection of their definitions, and the definitions saved.
RemoveProtection(g, arguments) ==
    LET protection_state ==
            {a.definition : a \in
                {b \in Range(arguments) :
                    b.type \in {"CLASS", "ENUM"} /\ IsProtected(g, b)}}
    IN  [g |-> [g EXCEPT !.is_protected =
                    [d \in DOMAIN @ |-> @[d] /\ d \notin protection_state]],
         protection_state |-> protection_state]

\* _remove_protections: of the result and the arguments of a signature.
RemoveProtections(g, sig) ==
    RemoveProtection(g,
        <<g.signatures[sig].result>> \o g.signatures[sig].args)

\* _restore_protections
RestoreProtections(g, protection_state) ==
    [g EXCEPT !.is_protected =
        [d \in DOMAIN @ |-> @[d] \/ d \in protection_state]]

\* _overload_decl and the head of _virtual_catcher: the signature is written
\* between _remove_protections and _restore_protections.
WriteUnprotected(g, sig) ==
    LET removed == RemoveProtections(g, sig)
    IN  RestoreProtections(removed.g, removed.protection_state)

\* _virtual_handler_call: the keys of the result and of the /Out/ arguments
\* that a reference is kept of are saved and set to the keys passed.
SetKeys(g, sig, passed) ==
    LET s == g.signatures[sig]
        result_keep == ResultIsReturned(sig) /\ KeepPyReference(s.result)
        Kept(i) == Signature(sig).args[i].is_out /\ KeepPyReference(s.args[i])
        NrBefore(i) ==
            (IF result_keep THEN 1 ELSE 0)
                + Cardinality({j \in 1..(i - 1) : Kept(j)})
    IN  [g |-> [g EXCEPT
                    !.signatures[sig].result.key =
                        IF result_keep THEN passed[1] ELSE @,
                    !.signatures[sig].args =
                        [i \in DOMAIN @ |->
                            IF Kept(i)
                            THEN [@[i] EXCEPT !.key = passed[NrBefore(i) + 1]]
                            ELSE @[i]]],
         saved_keys |->
            [result |-> [saved |-> result_keep, key |-> s.result.key],
             args |-> [i \in DOMAIN s.args |->
                        [saved |-> Kept(i), key |-> s.args[i].key]]]]

\* _virtual_handler_call: "for type, key in saved_keys.items()"
RestoreKeys(g, sig, saved_keys) ==
    [g EXCEPT
        !.signatures[sig].result.key =
            IF saved_keys.result.saved THEN saved_keys.result.key ELSE @,
        !.signatures[sig].args =
            [i \in DOMAIN @ |->
                IF saved_keys.args[i].saved
                THEN [@[i] EXCEPT !.key = saved_keys.args[i].key]
                ELSE @[i]]]

\* _virtual_handler_call: what it leaves of the graph, passed being the keys
\* it passes to the handler.
HandlerCallGraph(g, sig, passed) ==
    LET faked    == FakeProtectedArgs(g, sig)
        restored == RestoreProtectedArgs(faked.g, sig, faked.protection_state)
        keyed    == SetKeys(restored, sig, passed)
        result   == keyed.g.signatures[sig].result
        cast     == IF ResultIsReturned(sig) /\ result.type = "ENUM"
                        /\ IsProtected(keyed.g, result)
                    THEN LET removed == RemoveProtection(keyed.g, <<result>>)
                         IN  RestoreProtections(removed.g,
                                 removed.protection_state)
                    ELSE keyed.g
    IN  RestoreKeys(cast, sig, keyed.saved_keys)

\* The declaration and the catcher of each virtual overload of a shadow
\* class: what they leave of the graph, calls being the handler calls of
\* the catchers.
RECURSIVE ShadowGraph(_, _, _)
ShadowGraph(g, vos, calls) ==
    IF vos = <<>> THEN g
    ELSE LET sig == Head(vos).overload.cpp_signature
         IN  ShadowGraph(
                 HandlerCallGraph(WriteUnprotected(WriteUnprotected(g, sig), sig),
                     sig, Head(calls).passed),
                 Tail(vos), Tail(calls))

(***************************************************************************)
(*                         THE DEFAULT INSTANCES                           *)
(*                                                                         *)
(* The message of a UserException is the sequence of its parts; no         *)
(* exception is the empty message.                                         *)
(***************************************************************************)
NoError == <<>>

\* A statement of the C++ written: what kind of statement it is, and the
\* expression or the declaration it is made of.
Stmt(kind, text) == [kind |-> kind, text |-> text]

Open == Stmt("{", "")

Close == Stmt("}", "")

Return(value) == Stmt("return", value)

\* The result of a signature as _virtual_catcher and _virtual_handler pass
\* it on: nothing for void.
NoResult == [type |-> "None", derefs |-> 0, is_reference |-> FALSE,
             is_out |-> FALSE]

ResultOf(sig) ==
    IF ResultIsReturned(sig) THEN Signature(sig).result ELSE NoResult

DefaultInstanceReturnOfAnyCtor(result) ==
    LET new == IF result.is_reference THEN "*new " ELSE ""
        instance_code ==
            /\ result.derefs = 0
            /\ result.type \in {"CLASS", "MAPPED"}
            /\ result_class.instance_code
    IN  IF result = NoResult
        THEN [error |-> NoError, code |-> <<Return("")>>]
        ELSE IF instance_code
        THEN [error |-> NoError,
              code |-> <<Open, Stmt("decl", "static A *sipCpp = SIP_NULLPTR"),
                         Stmt("if", "!sipCpp"), Open,
                         Stmt("code", "%InstanceCode"), Close,
                         Return("*sipCpp"), Close>>]
        ELSE IF result.type = "MAPPED" /\ result.derefs = 0
        THEN [error |-> NoError, code |-> <<Return(new \o "A()")>>]
        ELSE IF result.type = "CLASS" /\ result.derefs = 0
        THEN IF result_class.default_ctor.exists
             THEN [error |-> NoError,
                   code |-> <<Return(new \o "A()")>>]
             ELSE [error |-> <<result_class.fq_cpp_name,
                               " must have a default constructor">>,
                   code |-> <<>>]
        ELSE [error |-> NoError, code |-> <<Return("0")>>]

\* _default_instance_return: the statement written, or the message of the
\* exception raised.
DefaultInstanceReturn(result) ==
    LET new == IF result.is_reference THEN "*new " ELSE ""
        instance_code ==
            /\ result.derefs = 0
            /\ result.type \in {"CLASS", "MAPPED"}
            /\ result_class.instance_code
        ctor == result_class.default_ctor
    IN  IF result = NoResult
        THEN [error |-> NoError, code |-> <<Return("")>>]
        ELSE IF instance_code
        THEN [error |-> NoError,
              code |-> <<Open, Stmt("decl", "static A *sipCpp = SIP_NULLPTR"),
                         Stmt("if", "!sipCpp"), Open,
                         Stmt("code", "%InstanceCode"), Close,
                         Return("*sipCpp"), Close>>]
        ELSE IF result.type = "MAPPED" /\ result.derefs = 0
        THEN [error |-> NoError, code |-> <<Return(new \o "A()")>>]
        ELSE IF result.type = "CLASS" /\ result.derefs = 0
        THEN IF /\ ctor.exists
                /\ ctor.access_specifier = "PUBLIC"
                /\ ctor.cpp_signature
             THEN [error |-> NoError,
                   code |-> <<Return(new \o "A()")>>]
             ELSE [error |-> <<result_class.fq_cpp_name,
                               " must have a default constructor">>,
                   code |-> <<>>]
        ELSE [error |-> NoError, code |-> <<Return("0")>>]

\* _virtual_handler_call: the statements of the call of the handler.
HandlerCallCode(klass, vo) ==
    LET call   == CalledHandler(klass, vo) \o "(sipGILState, sipPySelf, sipMeth)"
        result == ResultOf(vo.overload.cpp_signature)
    IN  <<Stmt("decl", "extern " \o CalledHandler(klass, vo))>>
        \o (IF ~vo.overload.new_thread /\ result /= NoResult
            THEN <<Return(call)>>
            ELSE <<Stmt("call", call)>>)
        \o (IF vo.overload.new_thread
            THEN <<Stmt("call", "sipEndThread()")>> ELSE <<>>)

VirtualCatcherCodeUnbraced(klass, vo) ==
    LET overload == vo.overload
        result   == ResultOf(overload.cpp_signature)
        native   == klass \o "::" \o overload.cpp_name \o "()"
    IN  <<Stmt("decl", "sip_gilstate_t sipGILState"),
          Stmt("decl", "PyObject *sipMeth"),
          Stmt("assign", "sipMeth = sipIsPyMethod()"),
          Stmt("if", "!sipMeth")>>
        \o (IF overload.virtual_call_code
            THEN <<Open>>
                 \o (IF result /= NoResult
                     THEN <<Stmt("decl", "sipRes")>> ELSE <<>>)
                 \o <<Stmt("code", "%VirtualCallCode"),
                      Return(IF result /= NoResult THEN "sipRes" ELSE ""),
                      Close>>
            ELSE IF overload.is_abstract
            THEN DefaultInstanceReturn(result).code
            ELSE IF result = NoResult
            THEN <<Stmt("call", native)>>
                 \o (IF overload.new_thread
                     THEN <<Stmt("call", "sipEndThread()")>> ELSE <<>>)
                 \o <<Return("")>>
            ELSE <<Return(native)>>)
        \o HandlerCallCode(klass, vo)

\* _virtual_catcher: the statements of the body of the catcher of a virtual
\* overload.
VirtualCatcherCode(klass, vo) ==
    LET overload == vo.overload
        result   == ResultOf(overload.cpp_signature)
        native   == klass \o "::" \o overload.cpp_name \o "()"
    IN  <<Stmt("decl", "sip_gilstate_t sipGILState"),
          Stmt("decl", "PyObject *sipMeth"),
          Stmt("assign", "sipMeth = sipIsPyMethod()"),
          Stmt("if", "!sipMeth")>>
        \o (IF overload.virtual_call_code
            THEN <<Open>>
                 \o (IF result /= NoResult
                     THEN <<Stmt("decl", "sipRes")>> ELSE <<>>)
                 \o <<Stmt("code", "%VirtualCallCode"),
                      Return(IF result /= NoResult THEN "sipRes" ELSE ""),
                      Close>>
            ELSE IF overload.is_abstract
            THEN DefaultInstanceReturn(result).code
            ELSE IF result = NoResult
            THEN <<Open, Stmt("call", native)>>
                 \o (IF overload.new_thread
                     THEN <<Stmt("call", "sipEndThread()")>> ELSE <<>>)
                 \o <<Return(""), Close>>
            ELSE <<Return(native)>>)
        \o HandlerCallCode(klass, vo)

\* _virtual_catcher: the exception raised when the catcher of a virtual
\* overload is written, if any.
CatcherError(vo) ==
    IF ~vo.overload.virtual_call_code /\ vo.overload.is_abstract
    THEN DefaultInstanceReturn(ResultOf(vo.overload.cpp_signature)).error
    ELSE NoError

VirtualHandlerCatcherCodeOfNewFlag(handler) ==
    LET sig == Signature(handler.cpp_signature)
        result_is_returned == ResultIsReturned(handler.cpp_signature)
        by_value ==
            /\ result_is_returned
            /\ sig.result.type \in {"CLASS", "MAPPED"}
            /\ sig.result.derefs = 0
        result_instance_code ==
            by_value /\ ~sig.result.is_reference /\ result_class.instance_code
        error_flag == catcher_flags.error_flag
        old_error_flag == catcher_flags.old_error_flag
        error_test == IF error_flag THEN "sipError != sipErrorNone"
                      ELSE "sipIsErr"
    IN  (IF result_instance_code
         THEN <<Stmt("decl", "static A *sipCpp = SIP_NULLPTR"),
                Stmt("if", "!sipCpp"), Open,
                Stmt("code", "%InstanceCode"), Close>>
         ELSE <<>>)
        \o (IF result_is_returned THEN <<Stmt("decl", "sipRes")>> ELSE <<>>)
        \o (IF error_flag
            THEN <<Stmt("decl", "sipErrorState sipError = sipErrorNone")>>
            ELSE IF old_error_flag
            THEN <<Stmt("decl", "int sipIsErr = 0")>>
            ELSE <<>>)
        \o <<Stmt("code", "%VirtualCatcherCode"),
             Stmt("call", "Py_DECREF(sipMethod)")>>
        \o (IF error_flag
            THEN <<Stmt("if", error_test),
                   Stmt("call", "sipCallErrorHandler()")>>
            ELSE <<>>)
        \o <<Stmt("call", "SIP_RELEASE_GIL(sipGILState)")>>
        \o (IF result_is_returned THEN <<Return("sipRes")>> ELSE <<>>)

\* _virtual_handler: the statements of the body of a handler that has
\* %VirtualCatcherCode.
VirtualHandlerCatcherCode(handler) ==
    LET sig == Signature(handler.cpp_signature)
        result_is_returned == ResultIsReturned(handler.cpp_signature)
        by_value ==
            /\ result_is_returned
            /\ sig.result.type \in {"CLASS", "MAPPED"}
            /\ sig.result.derefs = 0
        result_instance_code ==
            by_value /\ ~sig.result.is_reference /\ result_class.instance_code
        error_flag == catcher_flags.error_flag
        old_error_flag == catcher_flags.old_error_flag
        error_test == IF error_flag THEN "sipError != sipErrorNone"
                      ELSE "sipIsErr"
    IN  (IF result_instance_code
         THEN <<Stmt("decl", "static A *sipCpp = SIP_NULLPTR"),
                Stmt("if", "!sipCpp"), Open,
                Stmt("code", "%InstanceCode"), Close>>
         ELSE <<>>)
        \o (IF result_is_returned THEN <<Stmt("decl", "sipRes")>> ELSE <<>>)
        \o (IF error_flag
            THEN <<Stmt("decl", "sipErrorState sipError = sipErrorNone")>>
            ELSE IF old_error_flag
            THEN <<Stmt("decl", "int sipIsErr = 0")>>
            ELSE <<>>)
        \o <<Stmt("code", "%VirtualCatcherCode"),
             Stmt("call", "Py_DECREF(sipMethod)")>>
        \o (IF error_flag \/ old_error_flag
            THEN <<Stmt("if", error_test),
                   Stmt("call", "sipCallErrorHandler()")>>
            ELSE <<>>)
        \o <<Stmt("call", "SIP_RELEASE_GIL(sipGILState)")>>
        \o (IF result_is_returned THEN <<Return("sipRes")>> ELSE <<>>)

\* _virtual_handler: the exception raised when the definition of a handler
\* is written, if any.
HandlerError(handler) ==
    IF \E v \in Range(VirtualHandler(handler).parse) :
            \E p \in Range(v.extra) : p.kind = "raise"
    THEN <<"AttributeError", "'NoneType' object has no attribute 'as_word'">>
    ELSE IF VirtualHandler(handler).on_failure = "default_instance_return"
    THEN DefaultInstanceReturn(ResultOf(handler.cpp_signature)).error
    ELSE NoError

\* The items of a list that are generated before one raises an exception.
DoneBeforeError(items, Error(_)) ==
    LET raising == {i \in DOMAIN items : Error(items[i]) /= NoError}
    IN  IF raising = {} THEN items
        ELSE SubSeq(items, 1,
                 (CHOOSE i \in raising : \A j \in raising : i <= j) - 1)

\* The exception that stops the generation of a list of items, if any.
FirstError(items, Error(_)) ==
    IF Len(DoneBeforeError(items, Error)) = Len(items) THEN NoError
    ELSE Error(items[Len(DoneBeforeError(items, Error)) + 1])

(***************************************************************************)
(*                            THE SOURCE FILES                             *)
(***************************************************************************)
\* _module_code: the suffix of the source files.
SourceSuffix == IF c_bindings THEN ".c" ELSE ".cpp"

\* _make_part_name, without the build directory.
MakePartName(part_nr) == "sipmpart" \o ToString(part_nr) \o SourceSuffix

\* A source file: its name, whether it is a part and of what number, and
\* the interface files written to it, in order.
SourceFile(n, is_part, p) ==
    [name |-> n, is_part |-> is_part, part |-> p, units |-> <<>>]

\* Whether _module_code generates an interface file.
IsGenerated(f) == f.this_module /\ f.type /= "EXCEPTION"

\* _module_code: nr_files, the code of the module and the interface files.
NrFiles == 1 + Len(SelectSeq(iface_files, IsGenerated))

MaxPerPartRoundedDown == NrFiles \div parts

\* _module_code: max_per_part
MaxPerPart == (NrFiles + parts - 1) \div parts

\* _iface_file_cpp: the file the code of an interface file is written to,
\* use_sf being whether it is the current source file of the module.
WriteIfaceFile(st, f, use_sf) ==
    IF f.empty THEN st
    ELSE IF use_sf
    THEN [st EXCEPT !.files[st.sf].units = Append(@, f.name)]
    ELSE [st EXCEPT !.files =
            Append(@, [SourceFile("sipm" \o f.name
                            \o (IF f.file_extension /= NoExtension
                                THEN f.file_extension ELSE SourceSuffix),
                            FALSE, 0)
                       EXCEPT !.units = <<f.name>>])]

\* _module_code: "for iface_file in spec.iface_files", st being the source
\* files created so far, the current source file of the module and the
\* counters of the parts.
RECURSIVE IfaceFilesLoop(_, _)
IfaceFilesLoop(st, fs) ==
    IF fs = <<>> THEN st
    ELSE LET f == Head(fs) IN
         IF ~IsGenerated(f) THEN IfaceFilesLoop(st, Tail(fs))
         ELSE IF parts /= 0
         THEN LET next ==
                    IF st.files_in_part = MaxPerPart
                    THEN [files |-> Append(st.files,
                                       SourceFile(MakePartName(st.this_part + 1),
                                                  TRUE, st.this_part + 1)),
                          sf |-> Len(st.files) + 1,
                          files_in_part |-> 1,
                          this_part |-> st.this_part + 1]
                    ELSE [st EXCEPT !.files_in_part = @ + 1]
              IN  IfaceFilesLoop(
                      WriteIfaceFile(next, f, f.file_extension = NoExtension),
                      Tail(fs))
         ELSE IfaceFilesLoop(WriteIfaceFile(st, f, FALSE), Tail(fs))

\* _module_code: the source file that the code of the module starts in,
\* created before anything is generated.
ModuleSourceFile ==
    IF parts /= 0 THEN SourceFile(MakePartName(0), TRUE, 0)
    ELSE SourceFile("sipmcmodule" \o SourceSuffix, FALSE, 0)

\* _module_code: the source files, from the one the code of the module
\* starts in.
SourceFiles ==
    IfaceFilesLoop(
        [files |-> <<ModuleSourceFile>>,
         sf |-> 1, files_in_part |-> 1, this_part |-> 0],
        iface_files).files

(***************************************************************************)
(*                             THE GENERATION                              *)
(***************************************************************************)
\* _module_code: the interface source files of the module are generated.
IfaceFileCpp ==
    /\ pc = "strings"
    /\ LET shape_vos  == UniqueClassVirtualOverloads("Shape")
           shape_err  == FirstError(shape_vos, CatcherError)
           circle_vos == IF shape_err /= NoError THEN <<>>
                         ELSE UniqueClassVirtualOverloads("Circle")
           circle_err == FirstError(circle_vos, CatcherError)
           raised     == IF shape_err /= NoError THEN shape_err
                         ELSE circle_err
           none   == [ks |-> [next_key |-> next_key, kept_keys |-> kept_keys],
                      calls |-> <<>>]
           shape  == ShadowCode(none, "Shape",
                         DoneBeforeError(shape_vos, CatcherError))
           circle == ShadowCode(shape, "Circle",
                         DoneBeforeError(circle_vos, CatcherError))
           ks     == IF scope_type = "mapped" \/ raised /= NoError
                     THEN circle.ks
                     ELSE VariableHandlers(circle.ks, HandledVariables)
       IN  /\ handler_calls' = circle.calls
           /\ emitted_graph' =
                ShadowGraph(emitted_graph,
                    DoneBeforeError(shape_vos, CatcherError)
                        \o DoneBeforeError(circle_vos, CatcherError),
                    circle.calls)
           /\ catcher_code' =
                MapSeq(LAMBDA vo : VirtualCatcherCode("Shape", vo),
                    DoneBeforeError(shape_vos, CatcherError))
                \o MapSeq(LAMBDA vo : VirtualCatcherCode("Circle", vo),
                      DoneBeforeError(circle_vos, CatcherError))
           /\ next_key' = ks.next_key
           /\ kept_keys' = ks.kept_keys
           /\ error' = raised
           /\ IF raised = NoError
              THEN /\ catchers' = ClassCatchers("Shape")
                                      \o ClassCatchers("Circle")
                   /\ tables' = tables
                        \o (IF scope_type = "mapped" THEN MappedTypeTables
                            ELSE TypeDefinitionTables)
                   /\ refs' = refs
                        @@ (IF scope_type = "mapped" THEN MappedTypeRefs
                            ELSE TypeDefinitionRefs)
                   /\ sources' = SourceFiles
                   /\ pc' = "ifaces"
              ELSE /\ catchers' =
                        MapSeq(LAMBDA vo : VirtualCatcher("Shape", vo),
                            DoneBeforeError(shape_vos, CatcherError))
                        \o MapSeq(LAMBDA vo : VirtualCatcher("Circle", vo),
                              DoneBeforeError(circle_vos, CatcherError))
                   /\ UNCHANGED <<tables, refs>>
                   /\ sources' = <<ModuleSourceFile>>
                   /\ pc' = "failed"
    /\ UNCHANGED <<cached, name_cache, name_cache_list, sipStrings, sipNameNr>>
    /\ UNCHANGED <<graphVars, virtVars, partVars, extVars, handlers, handler_defs,
                   init_code, header_externs, handler_code, header_defines>>
    /\ property_rows' = IF scope_type = "class"
                        THEN MapSeq(PropertyRow, properties) ELSE <<>>

\* _module_code: "for handler in spec.virtual_handlers: _virtual_handler"
VirtualHandlers ==
    /\ pc = "ifaces"
    /\ handlers' = MapSeq(VirtualHandlerName,
                        DoneBeforeError(virtual_handlers, HandlerError))
    /\ handler_defs' = MapSeq(VirtualHandler,
                            DoneBeforeError(virtual_handlers, HandlerError))
    /\ handler_code' =
            MapSeq(LAMBDA h : [name |-> VirtualHandlerName(h),
                               body |-> VirtualHandlerCatcherCode(h)],
                SelectSeq(DoneBeforeError(virtual_handlers, HandlerError),
                    LAMBDA h : h.virtual_catcher_code))
    /\ error' = FirstError(virtual_handlers, HandlerError)
    /\ pc' = IF FirstError(virtual_handlers, HandlerError) = NoError
             THEN "handlers" ELSE "failed"
    /\ UNCHANGED <<cached, name_cache, name_cache_list, sipStrings, sipNameNr>>
    /\ UNCHANGED <<graphVars, virtVars, partVars, extVars, tables, refs, catchers,
                   next_key, kept_keys, handler_calls, init_code,
                   header_externs, sources, catcher_code, property_rows,
                   header_defines, emitted_graph>>

\* _module_code: the tables of the module, sipModuleAPI_m and the module
\* initialisation function.
ModuleTables ==
    /\ pc = "handlers"
    /\ tables' = tables \o ModuleTablesWritten
    /\ refs' = refs @@ ModuleRefs
    /\ init_code' = ModuleInit
    /\ pc' = "module"
    /\ UNCHANGED <<cached, name_cache, name_cache_list, sipStrings, sipNameNr>>
    /\ UNCHANGED <<graphVars, virtVars, partVars, extVars, catchers, handlers,
                   next_key, kept_keys, handler_calls, handler_defs,
                   header_externs, sources, error, catcher_code,
                   handler_code, property_rows, header_defines,
                   emitted_graph>>

(***************************************************************************)
(*                       THE BUILD SYSTEM EXTENSIONS                       *)
(***************************************************************************)
\* The names of the build system extensions (BuildSystemExtension.name).
ExtensionNames == {"pyqt", "dbus"}

\* The extendable objects: the class T and the module.
Extendables == {"T", "m"}

\* The value None of extendable.extension_data, and a dict.
NoDict == [is_none |-> TRUE, dict |-> <<>>]

Dict(d) == [is_none |-> FALSE, dict |-> d]

\* The value None that get_extension_data returns, and the object that the
\* factory of an extension returns when it is called for an extendable as
\* the serial-th call.
NoData == [is_none |-> TRUE, owner |-> "", extendable |-> "", serial |-> 0]

Data(name, extendable, serial) ==
    [is_none |-> FALSE, owner |-> name, extendable |-> extendable,
     serial |-> serial]

GetExtensionDataAlwaysCreated(name, ed, factory, fresh) ==
    IF ed.is_none /\ ~factory
    THEN [extension_data |-> ed, result |-> NoData, factory_ran |-> FALSE]
    ELSE IF ~factory
    THEN [extension_data |-> ed,
          result |-> IF name \in DOMAIN ed.dict THEN ed.dict[name]
                     ELSE NoData,
          factory_ran |-> FALSE]
    ELSE [extension_data |->
              Dict([k \in DOMAIN ed.dict \cup {name} |->
                        IF k = name THEN fresh ELSE ed.dict[k]]),
          result |-> fresh, factory_ran |-> TRUE]

\* BuildSystemExtension.get_extension_data: ed is extendable.extension_data,
\* factory whether a factory is passed and fresh what it would return.
GetExtensionData(name, ed, factory, fresh) ==
    IF ed.is_none /\ ~factory
    THEN [extension_data |-> ed, result |-> NoData, factory_ran |-> FALSE]
    ELSE IF ~ed.is_none /\ name \in DOMAIN ed.dict
    THEN [extension_data |-> ed, result |-> ed.dict[name],
          factory_ran |-> FALSE]
    ELSE IF ~ed.is_none /\ ~factory
    THEN [extension_data |-> ed, result |-> NoData, factory_ran |-> FALSE]
    ELSE [extension_data |->
              Dict([k \in DOMAIN ed.dict \cup {name} |->
                        IF k = name THEN fresh ELSE ed.dict[k]]),
          result |-> fresh, factory_ran |-> TRUE]

\* An extension calls get_extension_data for an extendable, with or without
\* a factory.
CallGetExtensionData(name, extendable, factory) ==
    /\ Len(extension_calls) < MaxCalls
    /\ LET call == GetExtensionData(name, extension_data[extendable], factory,
                       Data(name, extendable, Len(extension_calls) + 1))
       IN  /\ extension_data' =
                [extension_data EXCEPT ![extendable] = call.extension_data]
           /\ extension_calls' =
                Append(extension_calls,
                    [name |-> name, extendable |-> extendable,
                     factory |-> factory,
                     before |-> extension_data[extendable],
                     after |-> call.extension_data,
                     result |-> call.result,
                     factory_ran |-> call.factory_ran])
    /\ UNCHANGED <<namesVars, graphVars, virtVars, partVars, outVars>>
    /\ UNCHANGED <<result_class, catcher_flags, properties, extensions>>

(***************************************************************************)
(*                           THE SPECIFICATIONS                            *)
(***************************************************************************)
\* Nothing is parsed and nothing is generated yet.
Empty ==
    /\ cached = <<>>
    /\ name_cache = <<>>
    /\ name_cache_list = <<>>
    /\ sipStrings = <<>>
    /\ sipNameNr = <<>>
    /\ pc = "parse"
    /\ variables = <<>>
    /\ members = <<>>
    /\ global_functions = <<>>
    /\ enums = <<>>
    /\ superclasses = <<>>
    /\ all_imports = <<>>
    /\ needed_types = <<>>
    /\ virtual_overloads = [k \in VirtualClasses |-> <<>>]
    /\ virtual_handlers = <<>>
    /\ tables = <<>>
    /\ refs = <<>>
    /\ catchers = <<>>
    /\ handlers = <<>>
    /\ next_key = [mod \in ModuleNames |-> FirstKey]
    /\ kept_keys = <<>>
    /\ handler_calls = <<>>
    /\ handler_defs = <<>>
    /\ init_code = <<>>
    /\ header_externs = <<>>
    /\ iface_files = <<>>
    /\ sources = <<>>
    /\ extension_data = [e \in Extendables |-> NoDict]
    /\ extension_calls = <<>>
    /\ error = NoError
    /\ catcher_code = <<>>
    /\ handler_code = <<>>
    /\ property_rows = <<>>
    /\ header_defines = {}
    /\ emitted_graph = ParsedGraph

\* The options of a run that do not matter to a component.
DefaultOptions ==
    /\ abi_version = <<13, 0>>
    /\ c_bindings = FALSE
    /\ scope_type = "class"
    /\ parts = 0
    /\ result_class = UsableClass
    /\ catcher_flags = NoFlags
    /\ properties = <<>>
    /\ extensions = <<>>

\* The options of a run: the ABI version, C or C++ bindings, what T is (C has
\* no namespace).
AnyOptions ==
    /\ abi_version \in AbiVersions
    /\ c_bindings \in BOOLEAN
    /\ scope_type \in {"class", "namespace", "mapped"}
    /\ c_bindings => scope_type /= "namespace"
    /\ parts = 0
    /\ result_class = UsableClass
    /\ catcher_flags = NoFlags
    /\ properties = <<>>
    /\ extensions = <<>>

\* _module_code, from the name cache to the internal API header.
Generate ==
    \/ NameCacheAsList
    \/ NameCache
    \/ IfaceFileCpp
    \/ VirtualHandlers
    \/ ModuleTables
    \/ InternalApiHeaderNames

NamesInit == Empty /\ DefaultOptions

NamesNext ==
    \/ \E n \in NamePool : CacheName(n)
    \/ \E n \in NamePool : UseName(n)
    \/ Generate

TablesInit == Empty /\ AnyOptions

TablesNext ==
    \/ \E v \in VariablePool : AddVariable(MaxEntities, v)
    \/ \E m \in MemberPool : AddMember(MaxEntities, m)
    \/ \E m \in FunctionPool : AddGlobalFunction(MaxEntities, m)
    \/ \E e \in EnumPool : AddEnum(MaxEntities, e)
    \/ \E c \in ClassPool : AddSuperclass(MaxEntities, c)
    \/ \E mod \in ModulePool : AddImport(MaxEntities, mod)
    \/ Generate

TypesInit == Empty /\ DefaultOptions

TypesNext ==
    \/ \E e \in EnumPool : AddEnum(MaxTypes, e)
    \/ \E c \in ClassPool : AddSuperclass(MaxTypes, c)
    \/ \E mod \in ModulePool : AddImport(MaxTypes, mod)
    \/ \E t \in NeededPool : AddNeededType(MaxTypes, t)
    \/ Generate

VirtInit == Empty /\ DefaultOptions

VirtNext ==
    \/ \E k \in VirtualClasses, o \in VirtualOverloadPool :
            AddVirtualOverload(MaxVirtuals, k, o)
    \/ Generate

KeysInit == Empty /\ DefaultOptions

KeysNext ==
    \/ \E v \in HandledVariablePool :
            AddVariable(MaxKept - NrVirtualOverloads, v)
    \/ \E k \in VirtualClasses, o \in KeptOverloadPool :
            AddVirtualOverload(MaxKept - GraphSize, k, o)
    \/ Generate

\* The options of a run whose code may be split: the number of parts.
PartsOptions ==
    /\ abi_version = <<13, 0>>
    /\ c_bindings = FALSE
    /\ scope_type = "class"
    /\ parts \in 0..MaxParts
    /\ result_class = UsableClass
    /\ catcher_flags = NoFlags
    /\ properties = <<>>
    /\ extensions = <<>>

PartsInit == Empty /\ PartsOptions

PartsNext ==
    \/ \E f \in IfaceFilePool : AddIfaceFile(f)
    \/ Generate

\* The options of a run in which the class A may lack what an instance is
\* made with.
CatchOptions ==
    /\ abi_version = <<13, 0>>
    /\ c_bindings = FALSE
    /\ scope_type = "class"
    /\ parts = 0
    /\ result_class \in ResultClasses
    /\ catcher_flags = NoFlags
    /\ properties = <<>>
    /\ extensions = <<>>

CatchInit == Empty /\ CatchOptions

CatchNext ==
    \/ \E o \in CatchOverloadPool : AddVirtualOverload(MaxCatchers, "Shape", o)
    \/ Generate

ExtInit == Empty /\ DefaultOptions

ExtNext ==
    \E name \in ExtensionNames, extendable \in Extendables,
       factory \in BOOLEAN :
        CallGetExtensionData(name, extendable, factory)

vars == <<namesVars, graphVars, virtVars, partVars, extVars, outVars>>

SpecNames == NamesInit /\ [][NamesNext]_vars

SpecTables == TablesInit /\ [][TablesNext]_vars

SpecTypes == TypesInit /\ [][TypesNext]_vars

SpecVirt == VirtInit /\ [][VirtNext]_vars

SpecKeys == KeysInit /\ [][KeysNext]_vars

SpecParts == PartsInit /\ [][PartsNext]_vars

SpecCatch == CatchInit /\ [][CatchNext]_vars

\* SpecProps: the class T has properties, the parser gives it members, and
\* the module is generated.
PropsOptions ==
    /\ abi_version = <<13, 0>>
    /\ c_bindings = FALSE
    /\ scope_type = "class"
    /\ parts = 0
    /\ result_class = UsableClass
    /\ catcher_flags = Flags(FALSE, FALSE)
    /\ properties \in PropertyLists
    /\ extensions = <<>>

PropsInit == Empty /\ PropsOptions

PropsNext ==
    \/ \E m \in MemberPool : AddMember(MaxEntities, m)
    \/ Generate

SpecProps == PropsInit /\ [][PropsNext]_vars

\* SpecParse: the parser gives the class Shape virtual overloads whose
\* handlers parse results and /Out/ arguments, and the module is generated.
ParseInit == Empty /\ DefaultOptions

ParseNext ==
    \/ \E o \in ParseOverloadPool :
            AddVirtualOverload(MaxCatchers, "Shape", o)
    \/ Generate

SpecParse == ParseInit /\ [][ParseNext]_vars

\* SpecAbi: whatever the ABI version and the extensions that write an
\* extension structure for T, the parser gives the module functions and the
\* module is generated.
AbiOptions ==
    /\ abi_version \in HeaderAbiVersions
    /\ c_bindings = FALSE
    /\ scope_type = "class"
    /\ parts = 0
    /\ result_class = UsableClass
    /\ catcher_flags = Flags(FALSE, FALSE)
    /\ properties = NoProperties
    /\ extensions \in ExtensionLists

AbiInit == Empty /\ AbiOptions

AbiNext ==
    \/ \E m \in FunctionPool : AddGlobalFunction(MaxEntities, m)
    \/ Generate

SpecAbi == AbiInit /\ [][AbiNext]_vars

\* SpecProt: the parser gives the class Shape virtual overloads whose
\* signatures have protected enums and classes and values that a reference
\* is kept of, and the module is generated.
ProtInit == Empty /\ DefaultOptions

ProtNext ==
    \/ \E o \in ProtectedOverloadPool :
            AddVirtualOverload(MaxCatchers, "Shape", o)
    \/ Generate

SpecProt == ProtInit /\ [][ProtNext]_vars

\* SpecCode: the parser gives the class Shape virtual overloads that have
\* %VirtualCatcherCode, whatever error flags the code needs, and the module
\* is generated.
CodeOptions ==
    /\ abi_version = <<13, 0>>
    /\ c_bindings = FALSE
    /\ scope_type = "class"
    /\ parts = 0
    /\ result_class \in ResultClasses
    /\ catcher_flags \in [error_flag : BOOLEAN, old_error_flag : BOOLEAN]
    /\ properties = <<>>
    /\ extensions = <<>>

CodeInit == Empty /\ CodeOptions

CodeNext ==
    \/ \E o \in CodeOverloadPool : AddVirtualOverload(MaxCatchers, "Shape", o)
    \/ Generate

SpecCode == CodeInit /\ [][CodeNext]_vars

SpecExt == ExtInit /\ [][ExtNext]_vars

(***************************************************************************)
(* Properties of the name cache.                                           *)
(***************************************************************************)
\* sipStrings_m has been written.
PoolWritten == pc \notin {"parse", "listed"}

UsedNames == {n \in DOMAIN cached : cached[n].used}

\* The index of a name in the packing order (name_cache_list).
ListIndex(n) == CHOOSE i \in DOMAIN name_cache_list : name_cache_list[i] = n

PlacedBefore(b, a) == ListIndex(b) < ListIndex(a)

\* The string a C reader finds in tbl at a zero-based offset: the bytes up to
\* but not including the next terminator ("EOF" marks a read past the end).
RECURSIVE ReadFrom(_, _)
ReadFrom(tbl, p) ==
    IF p < 1 \/ p > Len(tbl) THEN <<"EOF">>
    ELSE IF tbl[p] = NUL THEN <<>>
    ELSE <<tbl[p]>> \o ReadFrom(tbl, p + 1)

ReadString(tbl, off) == ReadFrom(tbl, off + 1)

\* C1: once the pool is packed and emitted, every used name is read back
\* from the emitted string table at its recorded offset (the offset of the
\* CachedName, which is also the value of its sipNameNr_ define), whether it
\* is stored in full or as the tail of another name.
C1_UsedNamesReadBack ==
    /\ PoolWritten =>
          \A n \in UsedNames : ReadString(sipStrings, cached[n].offset) = n
    /\ pc = "header" =>
          /\ DOMAIN sipNameNr = UsedNames
          /\ \A n \in UsedNames : ReadString(sipStrings, sipNameNr[n]) = n

\* A state where the pool has been emitted with a name stored in full, a
\* name stored as a tail, and an unused name whose tail could not be used.
C1_Witness ==
    /\ pc = "header"
    /\ \E a, b \in UsedNames :
          /\ cached[a].is_substring
          /\ ~cached[b].is_substring
          /\ EndsWith(b, a)
    /\ \E a \in UsedNames, u \in DOMAIN cached :
          ~cached[u].used /\ a /= u /\ EndsWith(u, a)

\* Used names a and b where a is a proper suffix of b and b is placed first.
SuffixPair(a, b) ==
    /\ a \in UsedNames
    /\ b \in UsedNames
    /\ a /= b
    /\ EndsWith(b, a)
    /\ PlacedBefore(b, a)

\* The first name of the packing order that is used, stored in full and
\* ends with a.
FirstHost(a) ==
    LET hosts == {i \in DOMAIN name_cache_list :
                    LET h == name_cache_list[i]
                    IN  /\ h /= a
                        /\ cached[h].used
                        /\ ~cached[h].is_substring
                        /\ EndsWith(h, a)}
    IN  name_cache_list[CHOOSE i \in hosts : \A j \in hosts : i <= j]

\* The number of bytes of the pool taken by the names stored in full.
FullBytes ==
    SeqSum([i \in DOMAIN name_cache_list |->
              LET n == name_cache_list[i]
              IN  IF cached[n].used /\ ~cached[n].is_substring
                  THEN Len(n) + 1 ELSE 0])

\* C2 as claimed: for every pair of used names A and B where A is a suffix
\* of B and B is placed before A, A adds no bytes and A's offset is B's
\* offset + len(B) - len(A).
C2_AsClaimed ==
    pc /= "parse" =>
        \A a, b \in DOMAIN cached :
            SuffixPair(a, b) =>
                /\ cached[a].is_substring
                /\ cached[a].offset = cached[b].offset + Len(b) - Len(a)

\* C2 amended: a used name A that is a suffix of a used name placed before
\* it adds no bytes to the table, and A's offset is B's offset + len(B) -
\* len(A) for the first name B of the packing order that is used, stored in
\* full and ends with A.
C2_SuffixSharing ==
    /\ pc /= "parse" =>
          \A a \in DOMAIN cached :
              (\E b \in DOMAIN cached : SuffixPair(a, b)) =>
                  /\ cached[a].is_substring
                  /\ cached[a].offset =
                        cached[FirstHost(a)].offset + Len(FirstHost(a)) - Len(a)
    /\ PoolWritten => Len(sipStrings) = FullBytes

\* A packed and emitted pool where a name is a suffix of two names that are
\* both stored in full.
C2_Witness ==
    /\ pc = "strings"
    /\ \E a, b, c \in DOMAIN cached :
          /\ SuffixPair(a, b)
          /\ SuffixPair(a, c)
          /\ b /= c
          /\ ~cached[b].is_substring
          /\ ~cached[c].is_substring

ScenarioNames == { <<"x">>, <<"y", "x">>, <<"z", "y", "x">> }

ScenarioOffsets ==
    /\ cached[<<"z", "y", "x">>].offset = 0
    /\ cached[<<"y", "x">>].offset = 1
    /\ cached[<<"x">>].offset = 2

\* C3 as claimed: with the used names exactly x, yx and zyx the pool is a
\* single 8-byte buffer, with zyx at offset 0, yx at 1 and x at 2.
C3_AsClaimed ==
    (PoolWritten /\ UsedNames = ScenarioNames) =>
        /\ Len(sipStrings) = 8
        /\ ScenarioOffsets

\* C3 amended: with the used names exactly x, yx and zyx the pool is the
\* single 4-byte buffer 'z', 'y', 'x', 0, with zyx at offset 0, yx at 1 and
\* x at 2.
C3_ScenarioPool ==
    (PoolWritten /\ UsedNames = ScenarioNames) =>
        /\ sipStrings = <<"z", "y", "x", NUL>>
        /\ Len(sipStrings) = 4
        /\ ScenarioOffsets

C3_Witness ==
    /\ pc = "strings"
    /\ UsedNames = ScenarioNames


(***************************************************************************)
(* Properties of the generated tables.                                     *)
(***************************************************************************)
TableNames == {tables[i].name : i \in DOMAIN tables}

TableNamed(n) == CHOOSE t \in Range(tables) : t.name = n

IsInstanceTable(t) ==
    \E n \in Range(InstanceTables) : t.name \in {n, n \o "_T"}

IsMethodTable(t) == t.name = "methods_T"

IsSlotTable(t) == t.name = "slots_T"

\* A field that is zero or null.
ZeroField(f) == f \in {"0", SIP_NULLPTR, "(sipPySlotType)0"}

AllZero(row) == \A i \in DOMAIN row : ZeroField(row[i])

EndsWithTerminator(t) ==
    /\ Len(t.rows) >= 1
    /\ AllZero(t.rows[Len(t.rows)])

\* C5 as claimed: every method table of a class, namespace or mapped type,
\* every instance table and every slots table that is written ends with a
\* row whose fields are all zero or null.
C5_AsClaimed ==
    \A t \in Range(tables) :
        (IsMethodTable(t) \/ IsInstanceTable(t) \/ IsSlotTable(t))
            => EndsWithTerminator(t)

\* C5: every instance table and every slots table that is written ends with
\* a row whose fields are all zero or null, after one row or more that are
\* not; the method table of a class, namespace or mapped type has no such
\* row: it has one row per method and no other, and the number of its rows
\* is written in the descriptor of the type.
C5_Terminators ==
    \A t \in Range(tables) :
        /\ (IsInstanceTable(t) \/ IsSlotTable(t)) =>
                /\ Len(t.rows) >= 2
                /\ EndsWithTerminator(t)
                /\ \A i \in 1..(Len(t.rows) - 1) : ~AllZero(t.rows[i])
        /\ IsMethodTable(t) =>
                /\ Len(t.rows) >= 1
                /\ \A i \in DOMAIN t.rows : ~AllZero(t.rows[i])
                /\ refs["nr_T.methods"] = ToString(Len(t.rows))
                /\ refs["T.methods"] = t.name

\* C5 happens: a method table and an instance table have been written.
C5_Witness ==
    \E t, u \in Range(tables) : IsMethodTable(t) /\ IsInstanceTable(u)

\* The tables that end with a terminator row.
IsTerminated(t) ==
    \/ IsInstanceTable(t)
    \/ IsSlotTable(t)
    \/ t.name \in {"importsTable", "sip_methods"}
    \/ \E mod \in ModulePool : t.name = "sipImportedTypes_m_" \o mod.py_name

\* The number of entries of a table.
NrEntries(t) == IF IsTerminated(t) THEN Len(t.rows) - 1 ELSE Len(t.rows)

\* The fields of the descriptors that refer to a method table of a type, an
\* instance table, an enum member table, a variables table, a slots table,
\* a super-types table or the imports table, with the name of the table.
OptionalTables ==
    [k \in {"T." \o n : n \in Range(InstanceTables)} |->
        (CHOOSE n \in Range(InstanceTables) : "T." \o n = k) \o "_T"]
    @@ [k \in {"m." \o n : n \in Range(InstanceTables)} |->
        CHOOSE n \in Range(InstanceTables) : "m." \o n = k]
    @@ One("T.methods", "methods_T")
    @@ One("T.enummembers", "enummembers_T")
    @@ One("T.variables", "variables_T")
    @@ One("T.supers", "supers_T")
    @@ One("T.slots", "slots_T")
    @@ One("m.imports", "importsTable")
    @@ One("m.enummembers", "enummembers")

\* The tables of the module that C6 is about.
IsListedTable(t) == t.name \in Range(OptionalTables) \cup {"sip_methods"}

\* C6 as claimed: none of the tables is written without an entry, the string
\* pool and the method table of the module included.
C6_AsClaimed ==
    /\ \A t \in Range(tables) : IsListedTable(t) => NrEntries(t) > 0
    /\ PoolWritten => Len(sipStrings) > 0

\* C6: a per-type method table, an instance table, an enum member table, a
\* variables table, a slots table, a super-types table and the imports
\* table are written only if they have an entry, and the descriptor refers to the table if it is written and holds a null
\* reference if it is not; the string pool and the method table of the
\* module are always written and referred to: without a global function
\* the method table of the module holds its terminator row only.
C6_EmptyTables ==
    /\ \A t \in Range(tables) :
            (t.name \in Range(OptionalTables)) => NrEntries(t) > 0
    /\ \A k \in DOMAIN refs \cap DOMAIN OptionalTables :
            IF OptionalTables[k] \in TableNames
            THEN refs[k] = OptionalTables[k]
            ELSE refs[k] = SIP_NULLPTR
    /\ \A t \in Range(tables) :
            (t.name \in Range(OptionalTables)) =>
                \E k \in DOMAIN refs : refs[k] = t.name
    /\ pc \in {"module", "header"} =>
            /\ refs["m.strings"] = "sipStrings_m"
            /\ refs["m.methods"] = "sip_methods"
            /\ "sip_methods" \in TableNames
            /\ NrEntries(TableNamed("sip_methods"))
                    = Len(SelectSeq(global_functions,
                              LAMBDA m : m.py_slot = NoSlot))

\* C6 happens: the module is generated without a global function and
\* without a method of T, and with an instance table.
C6_Witness ==
    /\ pc = "module"
    /\ global_functions = <<>>
    /\ refs["T.methods"] = SIP_NULLPTR
    /\ \E t \in Range(tables) : IsInstanceTable(t)
    /\ \E k \in DOMAIN refs \cap DOMAIN OptionalTables : refs[k] /= SIP_NULLPTR

(***************************************************************************)
(* Properties of the type references.                                      *)
(***************************************************************************)
\* The row of the exported types table that describes a needed type.
Describes(row, t) ==
    CASE t.type = "CLASS" /\ t.external -> row = <<"0">>
      [] t.type = "CLASS" /\ ~t.external ->
            row = <<"&sipTypeDef_m_" \o t.name \o ".ctd_base">>
      [] t.type = "MAPPED" ->
            row = <<"&sipTypeDef_m_" \o t.name \o ".mtd_base">>
      [] t.type = "ENUM" ->
            \E n \in 0..Len(needed_types) :
                row = <<"&enumTypes[" \o ToString(n) \o "].etd_base">>

\* C7 as claimed: the exported types table of a module that needs types has
\* one row per entry of module.needed_types, the row at index i describes
\* the entry whose type_nr is i, and the number of needed types written in
\* the module descriptor is the number of rows.
C7_AsClaimed ==
    (pc \in {"module", "header"} /\ needed_types /= <<>>) =>
        /\ "sipExportedTypes_m" \in TableNames
        /\ LET rows == TableNamed("sipExportedTypes_m").rows
           IN  /\ Len(rows) = Len(needed_types)
               /\ refs["m.nr_exported_types"] = ToString(Len(rows))
               /\ \A i \in DOMAIN rows :
                    i \in DOMAIN needed_types /\ Describes(rows[i], needed_types[i])

\* Whether _encoded_type finds the module of a class.
Resolvable(klass) == klass.module = "m" \/ IsImported(klass.module)

\* C8: the encoded reference of a class of the module or of an imported
\* module has three fields: the type_nr of the class, 255 for a class of the
\* module and else the zero-based position of the module of the class in
\* module.all_imports, and the last flag; in the super-types table the flag
\* is 1 on the last super-class and 0 on the others, and the table has one
\* row per super-class and no other.
C8_EncodedSupers ==
    "supers_T" \in TableNames =>
        LET rows == TableNamed("supers_T").rows
        IN  /\ Len(rows) = Len(superclasses)
            /\ \A i \in DOMAIN superclasses :
                LET klass == superclasses[i]
                IN  /\ rows[i][Len(rows[i])] = (IF i = Len(superclasses) THEN "1" ELSE "0")
                    /\ Resolvable(klass) =>
                        /\ Len(rows[i]) = 3
                        /\ rows[i][1] = ToString(klass.type_nr)
                        /\ klass.module = "m" => rows[i][2] = "255"
                        /\ klass.module /= "m" =>
                            \E p \in DOMAIN all_imports :
                                /\ all_imports[p].py_name = klass.module
                                /\ rows[i][2] = ToString(p - 1)

\* C8 happens: T has two super-classes, the last one of the second module
\* that is imported.
C8_Witness ==
    /\ "supers_T" \in TableNames
    /\ Len(superclasses) = 2
    /\ Len(all_imports) = 2
    /\ superclasses[2].module = all_imports[2].py_name

\* C9 as claimed: no encoded reference is written for a super-class whose
\* module is neither the module nor one of module.all_imports, as the
\* generation stops there.
C9_AsClaimed ==
    (\E i \in DOMAIN superclasses : ~Resolvable(superclasses[i])) =>
        /\ "supers_T" \notin TableNames
        /\ pc \notin {"ifaces", "handlers", "module", "header"}

(***************************************************************************)
(* Properties of the virtual handlers.                                     *)
(***************************************************************************)
\* The virtual overload that a catcher of a class was written for.
OverloadOf(c) ==
    CHOOSE vo \in Range(UniqueClassVirtualOverloads(c.klass)) :
        vo.overload.cpp_name = c.cpp_name
            /\ VirtualCatcher(c.klass, vo) = c

\* Two catchers of area, of Shape and of Circle, whose overloads have the
\* same signature and point at the same handler.
SharedArea(c, d) ==
    /\ c.klass = "Shape" /\ d.klass = "Circle"
    /\ c.cpp_name = "area" /\ d.cpp_name = "area"
    /\ OverloadOf(c).handler = OverloadOf(d).handler
    /\ OverloadOf(c).overload.cpp_signature = OverloadOf(d).overload.cpp_signature

\* The overload has an implementation to call and no code of its own for it.
FallsThrough(vo) ==
    ~vo.overload.is_abstract /\ ~vo.overload.virtual_call_code

\* C10: when the catchers of area of Shape and of Circle point at the same
\* handler, the two call the same function, which is written once for the
\* module, and without a Python reimplementation the catcher of Shape calls
\* Shape::area and the catcher of Circle calls Circle::area.
C10_SharedHandler ==
    \A c, d \in Range(catchers) :
        SharedArea(c, d) =>
            /\ c.calls = d.calls
            /\ pc \in {"handlers", "module", "header"} =>
                    Cardinality({i \in DOMAIN handlers : handlers[i] = c.calls}) = 1
            /\ FallsThrough(OverloadOf(c)) => c.no_override = "Shape::area"
            /\ FallsThrough(OverloadOf(d)) => d.no_override = "Circle::area"

\* C10 happens: the handlers are written, and Shape and Circle each have a
\* catcher of area that falls through, the two with one handler.
C10_Witness ==
    /\ pc = "handlers"
    /\ \E c, d \in Range(catchers) :
            /\ SharedArea(c, d)
            /\ FallsThrough(OverloadOf(c))
            /\ FallsThrough(OverloadOf(d))

(***************************************************************************)
(* Properties of the kept references.                                      *)
(***************************************************************************)
\* The positions of kept_keys of the keys taken from a module.
KeysOf(mod) == {i \in DOMAIN kept_keys : kept_keys[i].module = mod}

\* C11: the keys taken from the counter of a module, by the getters, the
\* setters and the catchers in the order they are generated, are strictly
\* decreasing, so no two of them are the same; each key taken is the value
\* of the counter and takes it down by one: the n-th key of a module is its
\* first key less n - 1, and the counter is left at the first key less the
\* number of keys taken.  The keys a catcher passes are keys it took.
C11_KeysUnique ==
    /\ \A mod \in ModuleNames :
          /\ \A i, j \in KeysOf(mod) :
                i < j => kept_keys[j].key < kept_keys[i].key
          /\ \A i \in KeysOf(mod) :
                kept_keys[i].key =
                    FirstKey - Cardinality({j \in KeysOf(mod) : j < i})
          /\ next_key[mod] = FirstKey - Cardinality(KeysOf(mod))
    /\ \A c, d \in DOMAIN handler_calls :
          \A i \in DOMAIN handler_calls[c].passed,
             j \in DOMAIN handler_calls[d].passed :
                /\ \E k \in KeysOf("m") :
                      kept_keys[k].key = handler_calls[c].passed[i]
                /\ (<<c, i>> /= <<d, j>>) =>
                      handler_calls[c].passed[i] /= handler_calls[d].passed[j]

\* C11 happens: a getter and a catcher have taken keys of the module, and a
\* getter has taken a key of another module.
C11_Witness ==
    /\ pc = "ifaces"
    /\ \E i, j \in KeysOf("m") :
          /\ kept_keys[i].site = "Shape::name"
          /\ kept_keys[j].site = "varget_y"
    /\ KeysOf("core") /= {}

\* The definition of the handler that a catcher calls.
DefinitionOf(c) == CHOOSE d \in Range(handler_defs) : d.name = c.handler

\* C12: once the handlers are written, the handler a catcher calls is
\* defined once, and the definition has one int key parameter per value the
\* catcher keeps a reference of: the extern declaration of the catcher has
\* as many int parameters, the call passes as many keys, and the parameter
\* at each position is the key of the value the catcher passes there (the
\* result first, then the /Out/ arguments in the order of the signature).
C12_KeyParameters ==
    pc \in {"handlers", "module", "header"} =>
        \A c \in Range(handler_calls) :
            /\ Cardinality({i \in DOMAIN handler_defs :
                                handler_defs[i].name = c.handler}) = 1
            /\ Len(DefinitionOf(c).keys) = Len(c.declared)
            /\ Len(DefinitionOf(c).keys) = Len(c.passed)
            /\ DefinitionOf(c).keys = [i \in DOMAIN c.values |-> c.values[i] \o "Key"]
            /\ \A i \in DOMAIN c.declared : c.declared[i] = "int"

\* C12 happens: a handler with three keys is called by the catchers of two
\* classes, and a handler whose argument is a string that is not /Out/ is
\* called.
C12_Witness ==
    /\ pc = "handlers"
    /\ \E c, d \in Range(handler_calls) :
          /\ c.klass /= d.klass
          /\ c.handler = d.handler
          /\ Len(c.passed) = 3
          /\ DefinitionOf(c).keys = <<"sipResKey", "a0Key", "a1Key">>

(***************************************************************************)
(* Properties of the instances of the variables.                           *)
(***************************************************************************)
\* The module is generated: every table and the initialisation function.
ModuleWritten == pc \in {"module", "header"}

\* The number of rows of the instance table of a scope that have a name.
NrRowsNamed(table, scope, n) ==
    IF table \o Suffix(scope) \in TableNames
    THEN Cardinality({i \in DOMAIN TableNamed(table \o Suffix(scope)).rows :
                        TableNamed(table \o Suffix(scope)).rows[i][1] = n})
    ELSE 0

\* The statements of the initialisation function that add a variable.
InlineOf(v) ==
    {i \in DOMAIN init_code :
        /\ init_code[i].stmt = "sipAddTypeInstance"
        /\ init_code[i].scope = v.scope
        /\ init_code[i].py_name = v.py_name}

\* A variable of the module whose type is a wrapped class, with no handler,
\* no access code and no pointer indirection.
IsPlainClassInstance(v) ==
    /\ v.this_module
    /\ v.type = "CLASS"
    /\ ~v.needs_handler
    /\ ~v.access_code
    /\ v.derefs = 0

\* C13: in C++ bindings a variable whose type is a wrapped class, with no
\* handler, no access code and no pointer indirection, has no row in the
\* typeInstances table of its scope, and once the module is generated the
\* initialisation function has exactly one sipAddTypeInstance statement
\* for it, placed after the only call of sipInitModule.
C13_InlineClassInstances ==
    ~c_bindings =>
        \A v \in Range(variables) :
            IsPlainClassInstance(v) =>
                /\ NrRowsNamed("typeInstances", v.scope, v.py_name) = 0
                /\ ModuleWritten =>
                    /\ Cardinality(InlineOf(v)) = 1
                    /\ Cardinality({j \in DOMAIN init_code :
                            init_code[j].stmt = "sipInitModule"}) = 1
                    /\ \A i \in InlineOf(v), j \in DOMAIN init_code :
                            init_code[j].stmt = "sipInitModule" => j < i

\* C13 happens: the module is generated in C++ with such a variable in T
\* and a typeInstances table of another variable.
C13_Witness ==
    /\ pc = "module"
    /\ ~c_bindings
    /\ \E v \in Range(variables) : IsPlainClassInstance(v) /\ v.scope = "T"
    /\ \E t \in Range(tables) : t.name \in {"typeInstances", "typeInstances_T"}

\* The number of places a variable is emitted at: the rows with its name
\* in the instance tables of its scope and the statements that add it in
\* the initialisation function.
NrDestinations(v) ==
    SeqSum([i \in DOMAIN InstanceTables |->
                NrRowsNamed(InstanceTables[i], v.scope, v.py_name)])
        + Cardinality(InlineOf(v))

ModuleEnums == {e \in Range(enums) : e.this_module}

\* Where the members of a needed enum with a name are emitted: in the enum
\* member table of the scope before 13.0, in its int table from 13.0 on,
\* when no enum member table is written.
NamedEnumMembersPlaced(e) ==
    \A n \in Range(e.members) :
        IF AbiAtLeast(abi_version, 13, 0)
        THEN /\ NrRowsNamed("intInstances", e.scope, n) = 1
             /\ TableNames \cap {"enummembers", "enummembers_T"} = {}
        ELSE /\ NrRowsNamed("enummembers", e.scope, n) = 1
             /\ NrRowsNamed("intInstances", e.scope, n) = 0

TypeWritten == pc \notin {"parse", "listed", "strings"}

\* The rows of a table of T, none if the table is not written.
RowsOf(name) ==
    IF name \in TableNames THEN TableNamed(name).rows ELSE <<>>

\* The number of rows of a table of T whose first field is a given text.
NrRowsOf(name, first) ==
    Cardinality({i \in DOMAIN RowsOf(name) : RowsOf(name)[i][1] = first})

\* A member has an overload that is neither a signal nor both private and
\* abstract.
HasVisibleOverload(m) ==
    \E o \in Range(m.overloads) :
        ~o.pyqt_is_signal /\ ~(o.access_specifier = "PRIVATE" /\ o.is_abstract)

C18_AsClaimed ==
    \A i \in DOMAIN handler_defs :
        ~handler_defs[i].catcher_code =>
            /\ virtual_handlers[i].abort_on_exception =>
                    handler_defs[i].on_failure = "abort"
            /\ (~virtual_handlers[i].abort_on_exception
                    /\ handler_defs[i].result_is_reference) =>
                    handler_defs[i].on_failure = "default_instance_return"

\* The internal header is written.
HeaderWritten == pc = "header"

\* The number of rows of the imports table for an imported module.
NrImportsRows(mod) == NrRowsOf("importsTable", mod.py_name)

\* The number of declarations of the table of the types imported from a
\* module in the internal header.
NrExterns(mod) ==
    Cardinality({i \in DOMAIN header_externs :
                    header_externs[i] = "sipImportedTypes_m_" \o mod.py_name})

\* The rows of the table of the types imported from a module that name a
\* type.
ImportedTypeEntries(mod) ==
    SelectSeq(RowsOf("sipImportedTypes_m_" \o mod.py_name),
              LAMBDA r : r[1] /= SIP_NULLPTR)

\* For an imported module of which the module uses one class: one table of
\* imported types with one entry, declared once in the header, and one row
\* of the imports table, which refers to that table.
OneImportedType(mod) ==
    /\ Len(ImportedTypeEntries(mod)) = 1
    /\ ImportedTypeEntries(mod)[1][1] = mod.needed_types[1]
    /\ NrExterns(mod) = 1
    /\ NrImportsRows(mod) = 1
    /\ \A r \in Range(RowsOf("importsTable")) :
            r[1] = mod.py_name => r[2] = "sipImportedTypes_m_" \o mod.py_name

\* For an imported module of which the module uses no type: no table of
\* imported types and no declaration of one.
NoImportedType(mod) ==
    /\ "sipImportedTypes_m_" \o mod.py_name \notin TableNames
    /\ NrExterns(mod) = 0

\* C19 as claimed: once the module and its header are generated, an
\* imported module of which one class is used has one imported-type entry
\* and one row of the imports table, and an imported module of which no
\* type is used any more has neither.
C19_AsClaimed ==
    HeaderWritten =>
        \A mod \in Range(all_imports) :
            /\ Len(mod.needed_types) = 1 => OneImportedType(mod)
            /\ Len(mod.needed_types) = 0 =>
                    NoImportedType(mod) /\ NrImportsRows(mod) = 0

\* C19: once the module and its header are generated, an imported module
\* of which one class is used has one imported-type entry and one row of
\* the imports table; an imported module of which no type is used any more
\* has no imported-type entry, and still has its row of the imports table,
\* with a null reference for the types.
C19_ImportedTypes ==
    HeaderWritten =>
        \A mod \in Range(all_imports) :
            /\ Len(mod.needed_types) = 1 => OneImportedType(mod)
            /\ Len(mod.needed_types) = 0 =>
                    /\ NoImportedType(mod)
                    /\ NrImportsRows(mod) = 1
                    /\ \A r \in Range(RowsOf("importsTable")) :
                            r[1] = mod.py_name => r[2] = SIP_NULLPTR

\* C19 happens: the module imports a module of which it uses one class and
\* a module of which it uses no type.
C19_Witness ==
    /\ HeaderWritten
    /\ \E mod \in Range(all_imports) : Len(mod.needed_types) = 1
    /\ \E mod \in Range(all_imports) : Len(mod.needed_types) = 0

\* The interface units of the module, in the order of the interface files.
InterfaceUnits == SelectSeq(iface_files, IsGenerated)

\* The part files written, in the order they are created.
PartFiles == SelectSeq(sources, LAMBDA f : f.is_part)

\* The indexes of the part files that the code of a unit is written to.
PartsOf(u) ==
    {j \in DOMAIN PartFiles : u.name \in Range(PartFiles[j].units)}

\* The code of a unit is written once, to one part file.
WholeInOnePart(u) ==
    /\ Cardinality(PartsOf(u)) = 1
    /\ \A j \in PartsOf(u) :
            Cardinality({k \in DOMAIN PartFiles[j].units :
                            PartFiles[j].units[k] = u.name}) = 1

\* The module is split into parts and its interface files are written.
SplitWritten == TypeWritten /\ parts > 0

\* C20 as claimed: when the code is split into N parts, exactly N part
\* files are written, the i-th interface unit of the module is written to
\* the part i modulo N, and each unit is written whole to one part file.
C20_AsClaimed ==
    SplitWritten =>
        /\ Len(PartFiles) = parts
        /\ \A i \in DOMAIN InterfaceUnits :
                \A j \in PartsOf(InterfaceUnits[i]) :
                    PartFiles[j].part = (i - 1) % parts
        /\ \A u \in Range(InterfaceUnits) : WholeInOnePart(u)

\* The number of files a part holds before it is closed: the interface
\* units and the code of the module, shared out over the parts and rounded
\* up.
FilesPerPart ==
    CHOOSE k \in 1..(Len(InterfaceUnits) + 1) :
        /\ k * parts >= Len(InterfaceUnits) + 1
        /\ (k - 1) * parts < Len(InterfaceUnits) + 1

\* The units whose code goes to the source file of the module: those that
\* are not empty and have no file extension of their own.
UnitsOfParts ==
    SelectSeq(InterfaceUnits,
        LAMBDA u : ~u.empty /\ u.file_extension = NoExtension)

\* C20: when the code is split into N parts, at least one and at most N
\* part files are written, numbered from 0; the interface units of the
\* module that are not empty and have no file extension of their own are
\* written to the parts in consecutive runs, in the order of the interface
\* files, a part holding no more files than the units and the code of the
\* module shared out over N parts and rounded up, the code of the module
\* being a file of part 0; each such unit is written whole to one part
\* file, a unit with a file extension of its own is written to a file of
\* its own and an empty unit to no file.
C20_Parts ==
    SplitWritten =>
        /\ Len(PartFiles) \in 1..parts
        /\ \A j \in DOMAIN PartFiles :
                /\ PartFiles[j].part = j - 1
                /\ PartFiles[j].name = MakePartName(j - 1)
                /\ Len(PartFiles[j].units) + (IF j = 1 THEN 1 ELSE 0)
                        <= FilesPerPart
        /\ Concat([j \in DOMAIN PartFiles |-> PartFiles[j].units])
                = [i \in DOMAIN UnitsOfParts |-> UnitsOfParts[i].name]
        /\ \A u \in Range(UnitsOfParts) : WholeInOnePart(u)
        /\ \A u \in Range(InterfaceUnits) :
                /\ u.empty =>
                        \A f \in Range(sources) : u.name \notin Range(f.units)
                /\ (~u.empty /\ u.file_extension /= NoExtension) =>
                        /\ PartsOf(u) = {}
                        /\ Cardinality({j \in DOMAIN sources :
                                sources[j].units = <<u.name>>}) = 1

\* C20 happens: the code is split into three parts and two part files are
\* written, one of them with two interface units.
C20_Witness ==
    /\ pc = "header"
    /\ parts = 3
    /\ Len(PartFiles) = 2
    /\ \E j \in DOMAIN PartFiles : Len(PartFiles[j].units) = 2

\* The data an extension has stored for an extendable in a dict, None if
\* it has stored none.
StoredData(ed, name) ==
    IF ~ed.is_none /\ name \in DOMAIN ed.dict THEN ed.dict[name] ELSE NoData

\* The data that the extensions have stored in a dict.
StoredNames(ed) == IF ed.is_none THEN {} ELSE DOMAIN ed.dict

\* C21: over the calls of get_extension_data made, a call without a factory
\* leaves the extendable as it is and returns the data stored under the
\* name of the calling extension, or None; a call with a factory returns
\* the stored data if there is one and leaves the extendable as it is, and
\* otherwise runs the factory and stores and returns what it creates under
\* the name of the calling extension only; the factory runs at most once
\* for an extendable and a name, the data returned is never that of
\* another extension, and a call changes no data stored under another
\* name.
C21_ExtensionData ==
    /\ \A i \in DOMAIN extension_calls :
          LET c == extension_calls[i] IN
          /\ ~c.factory =>
                /\ c.after = c.before
                /\ ~c.factory_ran
                /\ c.result = StoredData(c.before, c.name)
          /\ (c.factory /\ c.name \in StoredNames(c.before)) =>
                /\ c.after = c.before
                /\ ~c.factory_ran
                /\ c.result = c.before.dict[c.name]
          /\ (c.factory /\ c.name \notin StoredNames(c.before)) =>
                /\ c.factory_ran
                /\ ~c.result.is_none
                /\ StoredNames(c.after) = StoredNames(c.before) \cup {c.name}
                /\ c.after.dict[c.name] = c.result
          /\ \A other \in StoredNames(c.before) \ {c.name} :
                c.after.dict[other] = c.before.dict[other]
          /\ ~c.result.is_none =>
                c.result.owner = c.name /\ c.result.extendable = c.extendable
    /\ \A name \in ExtensionNames, extendable \in Extendables :
          /\ Cardinality({i \in DOMAIN extension_calls :
                  /\ extension_calls[i].name = name
                  /\ extension_calls[i].extendable = extendable
                  /\ extension_calls[i].factory_ran}) <= 1
          /\ \A i, j \in DOMAIN extension_calls :
                (/\ i < j
                 /\ extension_calls[i].name = name
                 /\ extension_calls[j].name = name
                 /\ extension_calls[i].extendable = extendable
                 /\ extension_calls[j].extendable = extendable
                 /\ ~extension_calls[i].result.is_none)
                    => extension_calls[j].result = extension_calls[i].result

\* C21 happens: two extensions have stored data for the same extendable and
\* one of them has then asked for its data again with a factory.
C21_Witness ==
    /\ Len(extension_calls) = 3
    /\ extension_calls[1].factory_ran
    /\ extension_calls[2].factory_ran
    /\ extension_calls[2].extendable = extension_calls[1].extendable
    /\ extension_calls[2].name /= extension_calls[1].name
    /\ extension_calls[3].name = extension_calls[1].name
    /\ extension_calls[3].extendable = extension_calls[1].extendable
    /\ extension_calls[3].factory
    /\ extension_calls[3].result = extension_calls[1].result

\* The class A has no %InstanceCode and no public default constructor with
\* a C++ signature.
NoDefaultInstance ==
    /\ ~result_class.instance_code
    /\ ~(/\ result_class.default_ctor.exists
          /\ result_class.default_ctor.access_specifier = "PUBLIC"
          /\ result_class.default_ctor.cpp_signature)

\* A result is an instance of the class A, returned by value or by
\* reference.
IsClassResult(sig) ==
    Signature(sig).result.type = "CLASS" /\ Signature(sig).result.derefs = 0

\* A catcher needs a default instance of A: a class has an abstract virtual
\* overload without %VirtualCallCode that returns an A.
CatcherNeedsInstance ==
    \E klass \in VirtualClasses :
        \E vo \in Range(UniqueClassVirtualOverloads(klass)) :
            /\ vo.overload.is_abstract
            /\ ~vo.overload.virtual_call_code
            /\ IsClassResult(vo.overload.cpp_signature)

\* A handler needs a default instance of A: it returns a reference to an
\* A, has no %VirtualCatcherCode and does not abort when the result of the
\* Python method cannot be parsed.
HandlerNeedsInstance ==
    \E h \in Range(virtual_handlers) :
        /\ ~h.virtual_catcher_code
        /\ ~h.abort_on_exception
        /\ IsClassResult(h.cpp_signature)
        /\ Signature(h.cpp_signature).result.is_reference

\* The generation has stopped with an exception that names the class A.
StoppedNamingClass ==
    /\ pc = "failed"
    /\ result_class.fq_cpp_name \in Range(error)

\* C22: if the class A has no %InstanceCode and no public default
\* constructor with a C++ signature, then once the catchers are to be
\* written and one of them needs a default instance of A, and once the
\* handlers are to be written and one of them needs one, the generation
\* has stopped with a UserException whose message has the fully qualified
\* C++ name of A.
C22_DefaultInstanceRequired ==
    NoDefaultInstance =>
        /\ (pc \notin {"parse", "listed", "strings"} /\ CatcherNeedsInstance)
                => StoppedNamingClass
        /\ (pc \notin {"parse", "listed", "strings", "ifaces"}
                /\ HandlerNeedsInstance)
                => StoppedNamingClass

\* C22 happens: the catchers are written, none needs an instance of A, and
\* the generation stops at a handler that returns a reference to an A,
\* whose default constructor is protected.
C22_Witness ==
    /\ pc = "failed"
    /\ ~CatcherNeedsInstance
    /\ HandlerNeedsInstance
    /\ result_class.default_ctor.exists
    /\ result_class.default_ctor.access_specifier = "PROTECTED"
    /\ Len(catchers) > 0

\* C23 as claimed: when the generation has stopped with an exception, the
\* list of the source files of the buildable has no file that the run has
\* created.
C23_AsClaimed == pc = "failed" => sources = <<>>

\* A catcher is written for an overload whose signature has a protected
\* enum and a protected class, and for one whose result and /Out/ argument
\* are given keys.
ProtectedCatchersWritten ==
    /\ pc \notin {"parse", "listed", "strings"}
    /\ \E c \in Range(handler_calls) : c.cpp_name = "pick"
    /\ \E c \in Range(handler_calls) : Len(c.passed) = 2

\* C24: whatever has been generated, the type, derefs, is_reference,
\* is_const and key of every argument and result of every signature and the
\* is_protected flag of every enum and class are what the parser left.
C24_GraphRestored == emitted_graph = ParsedGraph

\* C24 happens: the catchers of such overloads are written, and the counter
\* of the kept references of the module has moved.
C24_Witness ==
    /\ ProtectedCatchersWritten
    /\ next_key["m"] /= FirstKey

\* The statement that starts at position i of a body: the position of its
\* last line, that of the closing brace when it is a block.
EndOfStatement(body, i) ==
    LET Depth(j) ==
            Cardinality({k \in i..j : body[k].kind = "{"})
                - Cardinality({k \in i..j : body[k].kind = "}"})
    IN  IF body[i].kind = "{"
        THEN CHOOSE j \in i..Len(body) :
                /\ Depth(j) = 0
                /\ \A k \in i..(j - 1) : Depth(k) > 0
        ELSE i

\* The statement that starts at position i returns at its end, whatever
\* the statements before its end do.
ReturnsAtEnd(body, i) ==
    IF body[i].kind = "{"
    THEN body[EndOfStatement(body, i) - 1].kind = "return"
    ELSE body[i].kind = "return"

\* The positions of a body where the handler is called.
HandlerCalls(body) ==
    {i \in DOMAIN body :
        /\ body[i].kind \in {"call", "return"}
        /\ \E h \in Range(virtual_handlers) :
                body[i].text = VirtualHandlerName(h)
                                \o "(sipGILState, sipPySelf, sipMeth)"}

\* The test for a Python reimplementation, then the branch taken without
\* one, which returns, then the only call of the handler.
DecidesInOrder(body) ==
    \E t, b \in DOMAIN body :
        /\ body[t] = Stmt("assign", "sipMeth = sipIsPyMethod()")
        /\ \A i \in 1..(t - 1) : body[i].kind = "decl"
        /\ b = t + 1
        /\ body[b] = Stmt("if", "!sipMeth")
        /\ ReturnsAtEnd(body, b + 1)
        /\ Cardinality(HandlerCalls(body)) = 1
        /\ \A h \in HandlerCalls(body) : h > EndOfStatement(body, b + 1)

\* What the branch taken without a Python reimplementation of overload o
\* of class klass does.
BranchOf(body, klass, o) ==
    LET first == 5
        last  == EndOfStatement(body, first)
        Has(kind, text) ==
            \E i \in first..last : body[i] = Stmt(kind, text)
        native == klass \o "::" \o o.cpp_name \o "()"
    IN  IF o.virtual_call_code
        THEN Has("code", "%VirtualCallCode") /\ ~Has("call", native)
                /\ ~Has("return", native)
        ELSE IF o.is_abstract
        THEN SubSeq(body, first, last)
                = DefaultInstanceReturn(ResultOf(o.cpp_signature)).code
        ELSE Has("call", native) \/ Has("return", native)

\* C25: the body of every catcher written tests for a Python
\* reimplementation first; the branch taken without one is the
\* %VirtualCallCode if there is some, else the default instance if the
\* overload is abstract, else the implementation of the class, and it
\* returns; the handler is called after that branch only.
C25_CatcherDecision ==
    /\ Len(catcher_code) = Len(catchers)
    /\ \A i \in DOMAIN catcher_code :
            /\ DecidesInOrder(catcher_code[i])
            /\ \E vo \in Range(UniqueClassVirtualOverloads(catchers[i].klass)) :
                    /\ vo.overload.cpp_name = catchers[i].cpp_name
                    /\ catcher_code[i]
                            = VirtualCatcherCode(catchers[i].klass, vo)
                    /\ BranchOf(catcher_code[i], catchers[i].klass,
                            vo.overload)

\* C25 happens: a catcher is written for an overload that returns nothing
\* and calls the implementation of the class, and one for an overload of
\* each of the two other branches.
C25_Witness ==
    /\ \E i \in DOMAIN catcher_code :
            \E j \in DOMAIN catcher_code[i] :
                catcher_code[i][j] = Stmt("call", "Shape::draw()")
    /\ \E i \in DOMAIN catcher_code :
            \E j \in DOMAIN catcher_code[i] :
                catcher_code[i][j].kind = "code"

\* What running the statements of a body from position i on does, in order:
\* the handwritten code and the calls made. failed is whether the
\* %VirtualCatcherCode sets the error flag that the body declares.
RECURSIVE Run(_, _, _)
Run(body, i, failed) ==
    IF i > Len(body) THEN <<>>
    ELSE LET s == body[i]
         IN  IF s.kind = "return" THEN <<"return">>
             ELSE IF s.kind = "if"
             THEN IF s.text \in {"sipError != sipErrorNone", "sipIsErr"}
                        /\ ~failed
                  THEN Run(body, EndOfStatement(body, i + 1) + 1, failed)
                  ELSE Run(body, i + 1, failed)
             ELSE IF s.kind \in {"code", "call"}
             THEN <<s.text>> \o Run(body, i + 1, failed)
             ELSE Run(body, i + 1, failed)

\* The positions of an event in what a run does.
Events(run, event) == {i \in DOMAIN run : run[i] = event}

\* Whether the %VirtualCatcherCode of a body can report a failure: the body
\* declares an error flag for it to set.
Outcomes(body) ==
    IF \E i \in DOMAIN body :
            body[i] \in {Stmt("decl", "sipErrorState sipError = sipErrorNone"),
                         Stmt("decl", "int sipIsErr = 0")}
    THEN BOOLEAN ELSE {FALSE}

\* One release, after the handwritten code and after the reference to the
\* method is dropped, and after the error handler when the code failed.
ReleasesOnce(run, failed) ==
    \E c, d, r \in DOMAIN run :
        /\ Events(run, "%VirtualCatcherCode") = {c}
        /\ Events(run, "Py_DECREF(sipMethod)") = {d}
        /\ Events(run, "SIP_RELEASE_GIL(sipGILState)") = {r}
        /\ c < d /\ d < r
        /\ failed =>
                \E e \in Events(run, "sipCallErrorHandler()") : c < e /\ e < r

\* C26: the body of every handler that has %VirtualCatcherCode, however the
\* code ends, releases the GIL once, after the code and after the reference
\* to the method is dropped, and calls the error handler before it when the
\* code sets its error flag.
C26_CatcherCodeReleases ==
    /\ pc \in {"handlers", "module", "header"} =>
            \A h \in Range(virtual_handlers) :
                h.virtual_catcher_code =>
                    \E c \in Range(handler_code) :
                        c.name = VirtualHandlerName(h)
    /\ \A c \in Range(handler_code) :
            \A failed \in Outcomes(c.body) :
                ReleasesOnce(Run(c.body, 1, failed), failed)

\* C26 happens: a handler is written whose code needs sipIsErr only, and
\* when it fails the error handler is called.
C26_Witness ==
    /\ catcher_flags = Flags(FALSE, TRUE)
    /\ \E c \in Range(handler_code) :
            /\ Outcomes(c.body) = BOOLEAN
            /\ Events(Run(c.body, 1, TRUE), "sipCallErrorHandler()") /= {}
            /\ Events(Run(c.body, 1, FALSE), "sipCallErrorHandler()") = {}

\* The reference to the row of the methods table of T that has a name.
RowNamed(name) ==
    LET rows == RowsOf("methods_T")
    IN  "&methods_T["
            \o ToString((CHOOSE i \in DOMAIN rows : rows[i][1] = name) - 1)
            \o "]"

\* C27 as it is claimed: once the code of T is written, the getter and the
\* setter of every property of T whose getter and setter have a row in the
\* methods table refer to the row that has their name.
C27_AsClaimed ==
    TypeWritten =>
        \A i \in DOMAIN property_rows :
            /\ NrRowsOf("methods_T", properties[i].getter) = 1 =>
                    property_rows[i][3] = RowNamed(properties[i].getter)
            /\ (/\ properties[i].setter /= NoSetter
                /\ NrRowsOf("methods_T", properties[i].setter) = 1) =>
                    property_rows[i][4] = RowNamed(properties[i].setter)

\* The catchers are written.
CatchersWritten == pc \in {"ifaces", "handlers", "module", "header"}

\* The number of catchers of a class that have a C++ name and signature.
NrCatchers(klass, name, sig) ==
    Cardinality({i \in DOMAIN catchers :
        /\ catchers[i].klass = klass
        /\ catchers[i].cpp_name = name
        /\ catchers[i].cpp_signature = sig})

\* The first virtual overload of a class that has the C++ name and signature
\* of one of its virtual overloads.
FirstLike(klass, vo) ==
    LET vos == virtual_overloads[klass]
        like == {i \in DOMAIN vos :
                    /\ vos[i].overload.cpp_name = vo.overload.cpp_name
                    /\ vos[i].overload.cpp_signature
                            = vo.overload.cpp_signature}
    IN  vos[CHOOSE i \in like : \A j \in like : i <= j]

\* C28 as it is claimed: every non-private virtual overload of a class has
\* exactly one catcher with its C++ name and signature, whatever entries
\* come before it.
C28_AsClaimed ==
    CatchersWritten =>
        \A klass \in VirtualClasses :
            \A vo \in Range(virtual_overloads[klass]) :
                vo.overload.access_specifier /= "PRIVATE" =>
                    NrCatchers(klass, vo.overload.cpp_name,
                        vo.overload.cpp_signature) = 1

\* C28, amended: once the catchers are written, every non-private virtual
\* overload of a class has exactly one catcher with its C++ name and
\* signature when the first entry of the class with that name and signature
\* is not private and none when that first entry is private, and every
\* catcher has the name and signature of a non-private virtual overload.
C28_Catchers ==
    CatchersWritten =>
        /\ \A klass \in VirtualClasses :
                \A vo \in Range(virtual_overloads[klass]) :
                    vo.overload.access_specifier /= "PRIVATE" =>
                        NrCatchers(klass, vo.overload.cpp_name,
                            vo.overload.cpp_signature)
                          = IF FirstLike(klass, vo).overload.access_specifier
                                    = "PRIVATE"
                            THEN 0 ELSE 1
        /\ \A c \in Range(catchers) :
                \E vo \in Range(virtual_overloads[c.klass]) :
                    /\ vo.overload.access_specifier /= "PRIVATE"
                    /\ vo.overload.cpp_name = c.cpp_name
                    /\ vo.overload.cpp_signature = c.cpp_signature

\* C28 happens: Shape has a private draw before a public draw, which has no
\* catcher, and another virtual overload, which has one.
C28_Witness ==
    /\ CatchersWritten
    /\ \E i, j \in DOMAIN virtual_overloads["Shape"] :
            LET vos == virtual_overloads["Shape"]
            IN  /\ i < j
                /\ vos[i].overload.cpp_name = "draw"
                /\ vos[i].overload.access_specifier = "PRIVATE"
                /\ vos[j].overload.cpp_name = "draw"
                /\ vos[j].overload.access_specifier = "PUBLIC"
    /\ NrCatchers("Shape", "draw", "void()") = 0
    /\ \E c \in Range(catchers) : c.klass = "Shape"

\* What a format of sipParseResultEx consumes before the pointer to the
\* value: the kinds of its extra parameters.
Consumes(format) ==
    IF format \in {"H0", "H1", "H4", "H5", "F", "N", "T"} THEN <<"type">>
    ELSE IF format = "z" THEN <<"capsule">>
    ELSE IF format \in {"B", "AA", "AL", "A8"} THEN <<"key">>
    ELSE <<>>

\* The extra parameters of a value are what its format consumes.
ExtraMatchesFormat(v) ==
    MapSeq(LAMBDA p : p.kind, v.extra) = Consumes(v.format)

\* C29 as it is claimed: no value stops the generation of the handler that
\* parses it, an anonymous enum included, and the extra parameters of every
\* value that a handler written parses are what its format consumes.
C29_AsClaimed ==
    /\ "AttributeError" \notin Range(error)
    /\ \A d \in Range(handler_defs) :
            \A v \in Range(d.parse) : ExtraMatchesFormat(v)

\* The handlers written parse values of every kind of extra parameter, and
\* the extra parameters of each are what its format consumes.
ParsedAsConsumed ==
    /\ \A d \in Range(handler_defs) :
            \A v \in Range(d.parse) : ExtraMatchesFormat(v)
    /\ \E d \in Range(handler_defs) :
            \E v \in Range(d.parse) : v.format = "z"
    /\ \E d \in Range(handler_defs) :
            \E v \in Range(d.parse) : v.format = "B"

\* The sipTypeSetExtensionData statements of the module initialisation
\* function.
ExtensionDataSet ==
    {i \in DOMAIN init_code : init_code[i].stmt = "sipTypeSetExtensionData"}

\* The target ABI has sipTypeSetExtensionData: 13.8 or later, or 12.15 up
\* to but not including 13.0.
AbiHasExtensionData ==
    \/ AbiAtLeast(abi_version, 13, 8)
    \/ AbiAtLeast(abi_version, 12, 15) /\ ~AbiAtLeast(abi_version, 13, 0)

\* C30 as it is claimed: once the internal API header is written it
\* defines sipTypeSetExtensionData for the ABI versions that have it and
\* for no other, and the module initialisation function calls it only if
\* the header defines it.
C30_AsClaimed ==
    pc = "header" =>
        /\ "sipTypeSetExtensionData" \in header_defines <=> AbiHasExtensionData
        /\ ExtensionDataSet /= {} =>
                "sipTypeSetExtensionData" \in header_defines

====
